---- MODULE Spec2Model ----
(***************************************************************************)
(* SigmaGuide: the reactive guidance loop (src/src/agents/                 *)
(* reactiveOrchestrator.ts) together with the parts of the host it talks   *)
(* to: the chat store, the message input, the preload bridge and the main  *)
(* process handlers for screen capture and click monitoring.               *)
(*                                                                         *)
(* The renderer is single threaded: the code between two awaits runs       *)
(* atomically, so every action below is one such run.  An invocation that  *)
(* is suspended at an await is a record in the bag ops; its field pc       *)
(* names the await it is suspended at.                                     *)
(***************************************************************************)
EXTENDS Bags, FiniteSets, Integers, Sequences, TLC

\* ------------------------------------------------------------------ bounds
MaxOps == 2        \* invocations suspended at an await at the same time
MaxMessages == 3   \* length of the chat history that is explored
MaxListeners == 1  \* 'mouse-click' listeners registered in the renderer
MaxPending == 2    \* 'show-highlight' sends waiting for their timer
MaxTicks == 3      \* advances of the clock that are explored
MaxElapsed == 7000 \* ms of a lookup that are explored
MaxClock == 3000  \* ms of wall-clock time that are explored for clicks
ClockStep == 250   \* granularity of that clock, in ms
MaxHashLen == 2    \* longest fingerprint, in characters
MaxSteps == 3      \* most steps of a task
MaxChecks == 2     \* checkStepCompletion invocations in flight
MaxRestarts == 3   \* restarts of global click monitoring

\* -------------------------------------------------------- program constants
POPUP_DETECTION_THRESHOLD == 15000
CLICK_DEBOUNCE == 1000          \* ms, "minimum time between click-triggered checks"
NORMALIZE_LENGTH == 80
TASK_MIN_LENGTH == 10          \* userMessage.length > 10
LOOKUP_TIMEOUT == 5000         \* ms given to the element search
MAX_DISTANCE == 64             \* distance of unusable fingerprints
HASH_BITS == 64                \* padStart(64, '0')
CONFIDENCE_THRESHOLD == 70     \* verification.confidence > 0.7, in percent
HASH_EDGE == 100               \* characters hashed at each end of a screenshot
SHOW_HIGHLIGHT_DELAY == 100   \* ms before 'show-highlight' is sent

\* ------------------------------------------------------------------ values
NoGoal == "none"
Goals == {"g1"}

NoFrame == 0                                  \* captureScreen() returned null
FrameLengths == {30000, 30200, 45200}  \* screenshot.length of a frame

NullText == <<"null">>                        \* lastGuidance = null

Go == <<"G", "o">>
Done == <<"D", "o", "n", "e", "!">>
EmptyText == <<>>

Party == <<"party", " ">>                     \* the prefix "🎉 "
ScreenChanged == <<"bulb", "changed">>        \* "💡 *Screen changed*\n\n"

UserText == <<"user-message">>
Apology == <<"cant-see-screen">>
ErrorReply == <<"encountered-error">>
Greeting == <<"hey-what-help">>
Welcome == <<"you-are-welcome">>
WhatHelp == <<"what-would-you-like">>
HereToHelp == <<"here-to-help">>
WentWrong == <<"something-went-wrong">>

\* A model response: error flag, prose text, structured fragment it carries.
Locs == {"none", "target", "coords"}
Responses ==
  {[error |-> TRUE, text |-> EmptyText, loc |-> "none"],
   [error |-> FALSE, text |-> EmptyText, loc |-> "none"],
   [error |-> FALSE, text |-> Done, loc |-> "none"]}
  \cup [error : {FALSE}, text : {Go}, loc : Locs]

\* What quickAnswerClaude returns in single mode.
QuickResponses ==
  {[error |-> TRUE, text |-> EmptyText, loc |-> "none"],
   [error |-> FALSE, text |-> Go, loc |-> "none"],
   [error |-> FALSE, text |-> Go, loc |-> "target"]}

NoResp == [error |-> FALSE, text |-> NullText, loc |-> "none"]

\* A user message: how classifyIntentClaude classifies it, the task it
\* extracts, and which branch of handleConversation its words select.
UserMessages ==
  [isTask : {TRUE}, task : Goals, conv : {"other"}]
  \cup [isTask : {FALSE}, task : {NoGoal}, conv : {"hi", "done"}]

Modes == {"steps", "single"}

\* ---- values of coordinate resolution
\* ParsedCoordinates.width / height are optional.
NoSize == -1

\* null / undefined where ParsedCoordinates is expected.  Resolved points are
\* kept in half units (x2 = 2 * x) so that x + width / 2 stays an integer.
NoCoordinates ==
  [defined |-> FALSE, x2 |-> 0, y2 |-> 0, width |-> NoSize, height |-> NoSize,
   coordinateSource |-> "none"]

\* parsed.target: undefined, with an empty text, with a text.
Targets ==
  {[defined |-> FALSE, text |-> ""],
   [defined |-> TRUE, text |-> ""],
   [defined |-> TRUE, text |-> "OK"]}

\* parsed.coordinates: undefined, or a point with or without a size.
FallbackCoords ==
  {[defined |-> FALSE, x |-> 0, y |-> 0, width |-> NoSize, height |-> NoSize]}
  \cup [defined : {TRUE}, x : {3, 20}, y : {8}, width : {NoSize, 6},
        height : {NoSize, 2}]

\* The renderer's environment, as resolveCoordinatesViaAccessibility tests it.
Environments ==
  {e \in [hasWindow : BOOLEAN, hasElectronAPI : BOOLEAN,
          hasFindElement : BOOLEAN, processDefined : BOOLEAN,
          platform : {"darwin", "linux"}] :
     /\ e.hasElectronAPI => e.hasWindow
     /\ e.hasFindElement => e.hasElectronAPI}

\* What the element search ends with when it runs: an exception, no element,
\* or the element's box (top-left corner and size).
Boxes == [x : {0, 10}, y : {7}, width : {4, 5}, height : {3}]
NoBox == [x |-> 0, y |-> 0, width |-> 0, height |-> 0]
Lookups ==
  {[kind |-> "throws", box |-> NoBox], [kind |-> "null", box |-> NoBox]}
  \cup [kind : {"box"}, box : Boxes]

\* No resolveCoordinates call is being followed.
NoCall ==
  [pc |-> "idle", target |-> [defined |-> FALSE, text |-> ""],
   fallbackCoords |-> [defined |-> FALSE, x |-> 0, y |-> 0, width |-> NoSize,
                       height |-> NoSize],
   env |-> [hasWindow |-> TRUE, hasElectronAPI |-> TRUE,
            hasFindElement |-> TRUE, processDefined |-> FALSE,
            platform |-> "darwin"],
   lookup |-> [kind |-> "null", box |-> NoBox]]

VARIABLES
  currentGoal,                   \* ReactiveOrchestrator.currentGoal
  lastGuidance,                  \* ReactiveOrchestrator.lastGuidance
  lastScreenshot,                \* length of lastScreenshot, NoFrame = null
  isProcessing,                  \* the reentrancy guard
  hotkeyListenerCleanup,         \* TRUE: a hotkey listener is registered
  globalClickMonitoringCleanup,  \* TRUE: a cleanup function is held
  mouseClickListeners,           \* 'mouse-click' listeners on ipcRenderer
  pendingClickStarts,            \* startClickMonitoring() promises pending
  clickMonitorProcess,           \* main process: monitor child is tracked
  captureInProgress,             \* main process: capture lock
  messages,                      \* chatStore.messages
  isLoading,                     \* chatStore.isLoading
  overlayVisible,                \* overlay window shown
  highlight,                     \* source of the highlight shown, or "none"
  ops,                           \* bag of suspended invocations
  lastOp,                        \* label of the last step taken
  resolveCall,                   \* arguments and environment of a resolveCoordinates call
  resolveResult,                 \* what that call returned
  highlights,                    \* overlay page: ids in the highlights Map
  pendingShows,                  \* main process: timers of 'show-highlight'
  now,                           \* Date.now(), in ms
  reply,                         \* a model response and the text shown for it
  intent,                        \* a message being classified and the answer
  timedLookup,                   \* an accessibility lookup, its child process and its cycle
  comparison,                    \* two fingerprints, a threshold and what the distance functions gave
  currentTask,                   \* useTaskStore: the task with its steps, or none
  planner,                       \* Orchestrator: isProcessing, monitoringInterval, a start under way
  checks,                        \* invocations of checkStepCompletion that are suspended
  clickRenderer,                 \* renderer: cleanup handle, mouse-click listeners, calls made for the last click
  clickMain,                     \* main process: clickMonitorProcess and the monitor children
  clickIpc,                      \* invocations on their way to main and answers on their way back
  stepWatch,                     \* Orchestrator: stored screenshot and hash, the screen, one checkStepCompletion
  clickTiming,                   \* clock, guard, start times of click checks
  highlightCall                  \* a show-overlay-highlight call and the point it yields

\* The orchestrator, the chat and the main process.
cycleVars == <<currentGoal, lastGuidance, lastScreenshot, isProcessing,
               hotkeyListenerCleanup, globalClickMonitoringCleanup,
               mouseClickListeners, pendingClickStarts, clickMonitorProcess,
               captureInProgress, messages, isLoading, overlayVisible,
               highlight, ops, lastOp>>

\* One call of resolveCoordinates, followed in detail.
resolveVars == <<resolveCall, resolveResult>>

\* The overlay page's highlights and the sends on their way to it.
overlayPageVars == <<highlights, pendingShows, now>>

\* One model response, followed to the text each cycle shows for it.
replyVars == <<reply>>

\* One call of classifyIntentClaude.
intentVars == <<intent>>

\* One accessibility lookup made by a guarded cycle, with its clock.
lookupVars == <<timedLookup>>

\* One comparison of two screen fingerprints.
distanceVars == <<comparison>>

\* The step-plan orchestrator and its task store.
taskVars == <<currentTask, planner, checks>>

\* Global click monitoring: renderer listeners, monitor processes, IPC.
monitorVars == <<clickRenderer, clickMain, clickIpc>>

\* Change detection of the step-plan orchestrator.
watchVars == <<stepWatch>>

\* the clock and the click-triggered checks it times
timingVars == <<clickTiming>>

\* the placement of a highlight on the screen
highlightVars == <<highlightCall>>

vars == <<cycleVars, resolveVars, overlayPageVars, replyVars, intentVars, lookupVars, distanceVars, taskVars, monitorVars, watchVars, timingVars, highlightVars>>

\* What the steps of one part of the model leave alone.
besidesCycles ==
  <<resolveVars, overlayPageVars, replyVars, intentVars, lookupVars,
    distanceVars, taskVars, monitorVars, watchVars, timingVars,
    highlightVars>>
besidesResolve ==
  <<cycleVars, overlayPageVars, replyVars, intentVars, lookupVars,
    distanceVars, taskVars, monitorVars, watchVars, timingVars,
    highlightVars>>
besidesOverlayPage ==
  <<cycleVars, resolveVars, replyVars, intentVars, lookupVars,
    distanceVars, taskVars, monitorVars, watchVars, timingVars,
    highlightVars>>
besidesReply ==
  <<cycleVars, resolveVars, overlayPageVars, intentVars, lookupVars,
    distanceVars, taskVars, monitorVars, watchVars, timingVars,
    highlightVars>>
besidesIntent ==
  <<cycleVars, resolveVars, overlayPageVars, replyVars, lookupVars,
    distanceVars, taskVars, monitorVars, watchVars, timingVars,
    highlightVars>>
besidesLookup ==
  <<cycleVars, resolveVars, overlayPageVars, replyVars, intentVars,
    distanceVars, taskVars, monitorVars, watchVars, timingVars,
    highlightVars>>
besidesDistance ==
  <<cycleVars, resolveVars, overlayPageVars, replyVars, intentVars,
    lookupVars, taskVars, monitorVars, watchVars, timingVars,
    highlightVars>>
besidesTask ==
  <<cycleVars, resolveVars, overlayPageVars, replyVars, intentVars,
    lookupVars, distanceVars, monitorVars, watchVars, timingVars,
    highlightVars>>
besidesMonitor ==
  <<cycleVars, resolveVars, overlayPageVars, replyVars, intentVars,
    lookupVars, distanceVars, taskVars, watchVars, timingVars,
    highlightVars>>
besidesWatch ==
  <<cycleVars, resolveVars, overlayPageVars, replyVars, intentVars,
    lookupVars, distanceVars, taskVars, monitorVars, timingVars,
    highlightVars>>
besidesTiming ==
  <<cycleVars, resolveVars, overlayPageVars, replyVars, intentVars,
    lookupVars, distanceVars, taskVars, monitorVars, watchVars,
    highlightVars>>
besidesHighlight ==
  <<cycleVars, resolveVars, overlayPageVars, replyVars, intentVars,
    lookupVars, distanceVars, taskVars, monitorVars, watchVars,
    timingVars>>

orchVars == <<currentGoal, lastGuidance, lastScreenshot, isProcessing,
              hotkeyListenerCleanup>>
clickVars == <<globalClickMonitoringCleanup, mouseClickListeners,
               pendingClickStarts, clickMonitorProcess>>
overlayVars == <<overlayVisible, highlight>>

\* ----------------------------------------------------------------- helpers
\* midCycle and goalBefore are observations, not program state: they record
\* whether the guard was held, and what currentGoal was, when
\* processUserMessage was entered.
Op(kind, pc) == [kind |-> kind, pc |-> pc, shot |-> NoFrame, resp |-> NoResp,
                 task |-> NoGoal, midCycle |-> FALSE,
                 goalBefore |-> NoGoal]

InFlight == BagToSet(ops)
Replace(o, n) == ops' = (ops (-) SetToBag({o})) (+) SetToBag({n})
Remove(o) == ops' = ops (-) SetToBag({o})
Add(n) == ops' = ops (+) SetToBag({n})

CanStart == BagCardinality(ops) < MaxOps
RoomFor(k) == Len(messages) + BagCardinality(ops) + k <= MaxMessages

Abs(n) == IF n < 0 THEN -n ELSE n

addMessage(role, content) == Append(messages, [role |-> role, content |-> content])

\* ------------------------------------------------------------ text helpers
LowerChar(c) ==
  CASE c = "D" -> "d" [] c = "G" -> "g" [] c = "S" -> "s"
    [] c = "H" -> "h" [] c = "T" -> "t" [] c = "N" -> "n"
    [] c = "E" -> "e" [] c = "I" -> "i"
    [] OTHER -> c
RECURSIVE toLowerCase(_)
toLowerCase(s) ==
  IF s = <<>> THEN <<>> ELSE <<LowerChar(Head(s))>> \o toLowerCase(Tail(s))

IsSpace(c) == c \in {" ", "\n", "\t"}

RECURSIVE TrimStart(_)
TrimStart(s) == IF s # <<>> /\ IsSpace(Head(s)) THEN TrimStart(Tail(s)) ELSE s
RECURSIVE TrimEnd(_)
TrimEnd(s) ==
  IF s # <<>> /\ IsSpace(s[Len(s)]) THEN TrimEnd(SubSeq(s, 1, Len(s) - 1)) ELSE s
trim(s) == TrimEnd(TrimStart(s))

startsWith(s, p) == Len(s) >= Len(p) /\ SubSeq(s, 1, Len(p)) = p
includes(s, p) ==
  \E i \in 1..(Len(s) - Len(p) + 1) : SubSeq(s, i, i + Len(p) - 1) = p
substring(s, n) == IF Len(s) <= n THEN s ELSE SubSeq(s, 1, n)

\* .replace(/[*_BACKTICK]/g, ''): asterisk, underscore and backtick go
RECURSIVE StripMarkup(_)
StripMarkup(s) ==
  IF s = <<>> THEN <<>>
  ELSE IF Head(s) \in {"*", "_", "backtick"} THEN StripMarkup(Tail(s))
  ELSE <<Head(s)>> \o StripMarkup(Tail(s))

\* .replace(/\s+/g, ' ')
RECURSIVE CollapseSpace(_)
CollapseSpace(s) ==
  IF s = <<>> THEN <<>>
  ELSE IF IsSpace(Head(s))
       THEN <<" ">> \o CollapseSpace(TrimStart(s))
       ELSE <<Head(s)>> \o CollapseSpace(Tail(s))

normalizeGuidance(text) ==
  substring(trim(CollapseSpace(StripMarkup(toLowerCase(text)))), NORMALIZE_LENGTH)

Word(str) ==
  CASE str = "done!" -> <<"d", "o", "n", "e", "!">>
    [] str = "done." -> <<"d", "o", "n", "e", ".">>
    [] str = "complete!" -> <<"c", "o", "m", "p", "l", "e", "t", "e", "!">>
    [] str = "finished!" -> <<"f", "i", "n", "i", "s", "h", "e", "d", "!">>
    [] str = "success!" -> <<"s", "u", "c", "c", "e", "s", "s", "!">>
    [] str = "successfully" -> <<"s", "u", "c", "c", "e", "s", "s", "f", "u", "l", "l", "y">>
    [] str = "created" -> <<"c", "r", "e", "a", "t", "e", "d">>
    [] str = "goal" -> <<"g", "o", "a", "l">>
    [] str = "achieved" -> <<"a", "c", "h", "i", "e", "v", "e", "d">>
    [] str = "party" -> <<"party">>

\* The text the model returned: the prose followed by its structured fragment.
Fragment(loc) == IF loc = "none" THEN <<>> ELSE <<" ", "{", loc, "}">>
responseText(resp) == resp.text \o Fragment(resp.loc)

\* parseCoordinatesFromResponse: the prose without the fragment (the whole
\* text when nothing is left without it: cleanedText || text.trim()), and
\* which of target / coordinates the fragment carried.
parsedText(resp) ==
  IF trim(resp.text) = <<>> THEN trim(resp.text \o Fragment(resp.loc))
  ELSE trim(resp.text)
hasTarget(resp) == resp.loc \in {"target", "both"}
hasCoordinates(resp) == resp.loc \in {"coords", "both"}

\* Completion detection of triggerManualCheck and handleClickEvent.
isComplete(text) ==
  LET lowerResponse == toLowerCase(trim(text)) IN
    \/ startsWith(lowerResponse, Word("done!"))
    \/ startsWith(lowerResponse, Word("done."))
    \/ startsWith(lowerResponse, Word("party"))
    \/ startsWith(lowerResponse, Word("complete!"))
    \/ startsWith(lowerResponse, Word("finished!"))
    \/ startsWith(lowerResponse, Word("success!"))
    \/ (includes(lowerResponse, Word("successfully")) /\ includes(lowerResponse, Word("created")))
    \/ (includes(lowerResponse, Word("goal")) /\ includes(lowerResponse, Word("achieved")))

\* Completion detection of checkForPopups.
isCompletePopup(text) ==
  LET trimmed == toLowerCase(trim(text)) IN
    \/ startsWith(trimmed, Word("done!"))
    \/ startsWith(trimmed, Word("done."))
    \/ startsWith(trimmed, Word("party"))
    \/ startsWith(trimmed, Word("complete!"))
    \/ startsWith(trimmed, Word("finished!"))
    \/ (includes(trimmed, Word("successfully")) /\ includes(trimmed, Word("created")))

celebrate(trimmedResponse) ==
  IF startsWith(trimmedResponse, Word("party")) THEN trimmedResponse
  ELSE Party \o trimmedResponse

\* Variant: any difference of 200 or more counts as a major change.
isMajorChange_Sensitive(screenshot, last) == Abs(screenshot - last) >= 200

\* Variant: a difference equal to the threshold is not a major change.
isMajorChange_Strict(screenshot, last) ==
  Abs(screenshot - last) > POPUP_DETECTION_THRESHOLD

\* hasMajorScreenChange, the comparison once a previous frame is stored.
lengthDiff(screenshot, last) == Abs(screenshot - last)
isMajorChange(screenshot, last) == lengthDiff(screenshot, last) >= POPUP_DETECTION_THRESHOLD

\* resolveCoordinates: the accessibility result wins, else the AI coordinates.
resolveCoordinates(resp, axFound) ==
  IF hasTarget(resp) /\ axFound THEN "accessibility"
  ELSE IF hasCoordinates(resp) THEN "ai"
  ELSE "none"

\* Does coordinate resolution or presentation suspend at an IPC await?
presentAwaits(resp) == resp.loc # "none"

\* ---- values of the reply texts
\* Texts a model response may open with, the completion markers among them.
ReplyTexts ==
  {Go, Done, <<" ">> \o Done, EmptyText,
   Word("done."), Word("complete!"), Word("finished!"),
   <<"S">> \o Tail(Word("success!")),
   Word("party") \o <<" ">> \o Go,
   Word("successfully") \o <<" ">> \o Word("created"),
   Word("goal") \o <<" ">> \o Word("achieved"),
   Word("goal"), Word("created")}

ReplyResponses == [error : {FALSE}, text : ReplyTexts, loc : Locs]

ReplyPaths == {"manual", "click", "popup", "message", "recheck"}

\* No response is being followed.
NoReply ==
  [pc |-> "idle", path |-> "manual", resp |-> NoResp, goalActive |-> FALSE,
   complete |-> FALSE, shown |-> FALSE, content |-> EmptyText]

\* ---- values of intent classification
\* The tokens classifyIntentClaude answers locally, and its task keywords.
GreetingTokens ==
  {<<"h", "i">>,
   <<"h", "e", "l", "l", "o">>,
   <<"h", "e", "y">>,
   <<"t", "h", "a", "n", "k", "s">>,
   <<"t", "h", "a", "n", "k", " ", "y", "o", "u">>,
   <<"b", "y", "e">>,
   <<"o", "k">>,
   <<"o", "k", "a", "y">>}
TaskKeywords ==
  {<<"h", "o", "w">>,
   <<"h", "e", "l", "p">>,
   <<"w", "a", "n", "t">>,
   <<"n", "e", "e", "d">>,
   <<"s", "h", "o", "w">>,
   <<"t", "e", "a", "c", "h">>}

\* Messages of the user: greetings, padded and capitalised ones, short and
\* long texts with and without a task keyword.
IntentMessages ==
  {<<"h", "i">>,
   <<" ", "H", "i", " ">>,
   <<"T", "h", "a", "n", "k", " ", "y", "o", "u">>,
   <<"t", "h", "a", "n", "k", "s", " ", " ", " ", " ", " ">>,
   <<"o", "k">>,
   <<"h", "e", "l", "p">>,
   <<"h", "o", "w", " ", "d", "o", " ", "i", " ", "s", "a", "v", "e">>,
   <<"s", "h", "o", "w", " ", "m", "e", " ", " ", " ", " ">>,
   <<"s", "h", "o", "w", " ", "m", "e">>,
   <<"o", "p", "e", "n", " ", "s", "e", "t", "t", "i", "n", "g", "s">>,
   <<"I", " ", "N", "E", "E", "D", " ", "a", " ", "f", "i", "l", "e">>,
   <<"t", "h", "i", "s", " ", "i", "s", " ", "a", " ", "t", "e", "s", "t">>,
   <<>>}

\* How the classification request ends: the call rejects, or the content of
\* the reply is empty, is not JSON, is the JSON null, or is a JSON object
\* whose fields may be missing.
IntentOutcomes ==
  [kind : {"throws", "empty", "malformed", "jsonNull"}, isTask : {"missing"},
   task : {<<>>}]
  \cup [kind : {"object"}, isTask : {"true", "false", "missing"},
        task : {<<>>, <<"s", "a", "v", "e">>}]

\* No message is being classified.
NoIntent ==
  [pc |-> "idle", userMessage |-> <<>>,
   outcome |-> [kind |-> "empty", isTask |-> "missing", task |-> <<>>],
   calls |-> 0, isTask |-> FALSE, task |-> <<>>]

\* ---- values of the timed accessibility lookup
\* The clock of a lookup advances by a second.
Second == 1000

\* No lookup is being followed.
NoLookup ==
  [pc |-> "idle", cycle |-> "manual", hasFallback |-> FALSE, hangs |-> FALSE,
   elapsed |-> 0, timedOut |-> FALSE, found |-> FALSE, source |-> "none",
   guard |-> FALSE]

\* ---- values of the fingerprint comparison
\* Hexadecimal digits of a fingerprint, by value: '0', '1', 'a', 'f'.
HexDigits == {0, 1, 10, 15}

\* Fingerprints: the empty string and strings of hexadecimal digits.
Hashes == UNION {[1..n -> HexDigits] : n \in 0..MaxHashLen}

\* Thresholds: the defaults 3 and 5, and the ends of the range.
Thresholds == {0, 3, 5, 63, 64}

\* No comparison has been made.
NoComparison ==
  [pc |-> "idle", hash1 |-> <<>>, hash2 |-> <<>>, threshold |-> 0,
   hamming |-> 0, hashDist |-> 0, changed |-> FALSE, similar |-> FALSE]

\* ---- values of the step-plan orchestrator
\* useTaskStore.currentTask = null. currentStepIndex counts from 0.
NoTask ==
  [defined |-> FALSE, steps |-> <<>>, currentStepIndex |-> 0,
   status |-> "idle"]

\* A task as processUserMessage creates it, with n steps.
NewTask(n) ==
  [defined |-> TRUE, steps |-> [i \in 1..n |-> "pending"],
   currentStepIndex |-> 0, status |-> "in_progress"]

\* The Orchestrator after construction.
IdlePlanner ==
  [isProcessing |-> FALSE, monitoringInterval |-> FALSE, starting |-> FALSE]

\* No invocation of checkStepCompletion in this slot. index and length are
\* those of the task the invocation read at its start.
NoCheck ==
  [pc |-> "idle", index |-> 0, length |-> 0, verdict |-> "none"]

NoChecks == [k \in 1..MaxChecks |-> NoCheck]

\* What verifyStepCompletion may return: null, or completed and confidence.
Verifications ==
  {[defined |-> FALSE, completed |-> FALSE, confidence |-> 0]}
    \cup [defined : {TRUE}, completed : BOOLEAN, confidence : {70, 90}]

\* ---- values of global click monitoring
\* The renderer after construction. listeners counts the functions
\* registered on 'mouse-click'; invoked counts the handleClickEvent calls
\* made for the last click.
IdleClickRenderer ==
  [globalClickMonitoringCleanup |-> FALSE, listeners |-> 0, invoked |-> 0,
   restarts |-> 0]

\* The main process after start-up. Monitor children are numbered from 1;
\* clickMonitorProcess = 0 is null.
IdleClickMain ==
  [clickMonitorProcess |-> 0, alive |-> {}, killed |-> {}, spawned |-> 0]

IdleClickIpc == [requests |-> <<>>, replies |-> <<>>]

\* ---- values of the change detection
\* Screenshots, as strings of character codes; <<>> is null.
Screens == {<<65>>, <<66>>, <<65, 66>>}
NoScreen == <<>>

\* lastScreenshotHash = null: a value the hash of no explored screenshot
\* takes.
NoHash == 2147483647

\* The Orchestrator after construction, showing some screen.
IdleWatch ==
  [lastScreenshot |-> NoScreen, lastScreenshotHash |-> NoHash,
   screen |-> <<65>>, monitoring |-> FALSE, pc |-> "idle",
   newScreenshot |-> NoScreen, stableScreenshot |-> NoScreen]

\* ---- values of the click timing
\* The ReactiveOrchestrator after construction, with a clock at 0. lastStart
\* and gap are <<>> until a click-triggered check has started (twice);
\* modelCalled tells whether the latest check reached the model.
IdleClickTiming ==
  [now |-> 0, isProcessing |-> FALSE, pc |-> "idle",
   lastStart |-> <<>>, gap |-> <<>>, modelCalled |-> FALSE]

\* ---- values of the highlight placement
\* primaryDisplay.size, in logical pixels.
Displays == {[width |-> 1440, height |-> 900], [width |-> 1920, height |-> 1080]}

\* lastScreenshotDimensions; NoDimensions is null.
NoDimensions == [width |-> 0, height |-> 0]
ShotDimensions ==
  {NoDimensions, [width |-> 1440, height |-> 900],
   [width |-> 2880, height |-> 1800], [width |-> 1920, height |-> 1080]}

\* data.x, data.y and data.coordinateSource of 'show-overlay-highlight'.
HighlightXs == {-10, 0, 720, 1440, 2000}
HighlightYs == {0, 450, 900, 1500}
CoordinateSources == {"accessibility", "ai"}

\* No 'show-overlay-highlight' call has been made.
IdleHighlightCall ==
  [pc |-> "idle", x |-> 0, y |-> 0, coordinateSource |-> "ai",
   display |-> [width |-> 1440, height |-> 900],
   lastScreenshotDimensions |-> NoDimensions, screenX |-> 0, screenY |-> 0]

\* -------------------------------------------------------------------- Init
Init ==
  /\ currentGoal = NoGoal
  /\ lastGuidance = NullText
  /\ lastScreenshot = NoFrame
  /\ isProcessing = FALSE
  /\ hotkeyListenerCleanup = FALSE
  /\ globalClickMonitoringCleanup = FALSE
  /\ mouseClickListeners = 0
  /\ pendingClickStarts = 0
  /\ clickMonitorProcess = FALSE
  /\ captureInProgress = FALSE
  /\ messages = <<>>
  /\ isLoading = FALSE
  /\ overlayVisible = FALSE
  /\ highlight = "none"
  /\ ops = EmptyBag
  /\ lastOp = "init"
  /\ resolveCall = NoCall
  /\ resolveResult = NoCoordinates
  /\ highlights = {}
  /\ pendingShows = <<>>
  /\ now = 0
  /\ reply = NoReply
  /\ intent = NoIntent
  /\ timedLookup = NoLookup
  /\ comparison = NoComparison
  /\ currentTask = NoTask
  /\ planner = IdlePlanner
  /\ checks = NoChecks
  /\ clickRenderer = IdleClickRenderer
  /\ clickMain = IdleClickMain
  /\ clickIpc = IdleClickIpc
  /\ stepWatch = IdleWatch
  /\ clickTiming = IdleClickTiming
  /\ highlightCall = IdleHighlightCall

\* ------------------------------------------- screen capture (main process)
\* captureScreen() invokes ipcMain.handle('capture-screen'): a request that
\* finds the lock taken is answered with null, otherwise the lock is taken.
\* The invocation o is suspended until the answer is delivered.
captureScreen(o) ==
  IF captureInProgress
  THEN [o EXCEPT !.pc = "capDone", !.shot = NoFrame]
  ELSE [o EXCEPT !.pc = "capBusy"]

\* The capture ends with a frame or with an error (null); the lock is freed.
MainCaptureFinish(o) ==
  /\ o.pc = "capBusy"
  /\ \E f \in FrameLengths \cup {NoFrame} :
       Replace(o, [o EXCEPT !.pc = "capDone", !.shot = f])
  /\ captureInProgress' = FALSE
  /\ lastOp' = "capture.end"
  /\ UNCHANGED <<orchVars, clickVars, overlayVars, messages, isLoading>>

\* ------------------------------------------------------------- monitoring
\* Variant: the hotkey listener is left registered.
stopMonitoring_KeepsHotkey == UNCHANGED hotkeyListenerCleanup

stopMonitoring == hotkeyListenerCleanup' = FALSE
startMonitoring == hotkeyListenerCleanup' = TRUE

\* Variant: the end of a cycle leaves the guard as it is.
Finally_KeepsGuard(o) == UNCHANGED isProcessing /\ Remove(o)

\* The end of a guarded cycle: the finally block.
Finally(o) == isProcessing' = FALSE /\ Remove(o)

\* showHighlight / clearHighlights after coordinate resolution.
Present(src) ==
  IF src # "none"
  THEN highlight' = src /\ overlayVisible' = TRUE
  ELSE highlight' = "none" /\ UNCHANGED overlayVisible

\* ------------------------------------------------------ triggerManualCheck
\* Variants of the guard with one of its two tests left out.
ManualCheckSkips_GoalOnly == currentGoal = NoGoal
ManualCheckSkips_GuardOnly == isProcessing

ManualCheckSkips == isProcessing \/ currentGoal = NoGoal

triggerManualCheck ==
  IF ManualCheckSkips
  THEN UNCHANGED vars
  ELSE /\ CanStart /\ RoomFor(1)
       /\ isProcessing' = TRUE
       /\ Add(captureScreen(Op("manual", "start")))
       /\ captureInProgress' = TRUE
       /\ lastOp' = "manual.start"
       /\ UNCHANGED <<currentGoal, lastGuidance, lastScreenshot,
                      hotkeyListenerCleanup, clickVars, overlayVars,
                      messages, isLoading>>

\* The hotkey reaches triggerManualCheck through the registered listener.
HotkeyPressed == hotkeyListenerCleanup /\ triggerManualCheck

ManualCaptured(o) ==
  /\ o.kind = "manual" /\ o.pc = "capDone"
  /\ IF o.shot = NoFrame
     THEN /\ Finally(o)
          /\ lastOp' = "manual.nocapture"
          /\ UNCHANGED lastScreenshot
     ELSE /\ lastScreenshot' = o.shot
          /\ Replace(o, [o EXCEPT !.pc = "model", !.shot = NoFrame])
          /\ lastOp' = "manual.model"
          /\ UNCHANGED isProcessing
  /\ UNCHANGED <<currentGoal, lastGuidance, hotkeyListenerCleanup, clickVars,
                 overlayVars, captureInProgress, messages, isLoading>>

\* Variant: completion also stores the response as lastGuidance.
ManualOnComplete_StoresGuidance(o, r) ==
  /\ messages' = addMessage("assistant", celebrate(trim(responseText(r))))
  /\ overlayVisible' = FALSE
  /\ currentGoal' = NoGoal
  /\ stopMonitoring
  /\ Finally(o)
  /\ lastOp' = "manual.complete"
  /\ lastGuidance' = parsedText(r)
  /\ UNCHANGED highlight

ManualOnComplete(o, r) ==
  /\ messages' = addMessage("assistant", celebrate(trim(responseText(r))))
  /\ overlayVisible' = FALSE
  /\ currentGoal' = NoGoal
  /\ stopMonitoring
  /\ Finally(o)
  /\ lastOp' = "manual.complete"
  /\ UNCHANGED <<lastGuidance, highlight>>

ManualOnGuidance(o, r) ==
  /\ messages' = addMessage("assistant", parsedText(r))
  /\ lastGuidance' = parsedText(r)
  /\ IF presentAwaits(r)
     THEN /\ Replace(o, [o EXCEPT !.pc = "present", !.resp = r])
          /\ UNCHANGED <<isProcessing, highlight>>
     ELSE /\ highlight' = "none"
          /\ Finally(o)
  /\ lastOp' = "manual.guidance"
  /\ UNCHANGED <<currentGoal, hotkeyListenerCleanup, overlayVisible>>

ManualResponse(o) ==
  /\ o.kind = "manual" /\ o.pc = "model"
  /\ \E r \in Responses :
       IF r.error \/ responseText(r) = EmptyText
       THEN /\ Finally(o)
            /\ lastOp' = "manual.error"
            /\ UNCHANGED <<currentGoal, lastGuidance, hotkeyListenerCleanup,
                           overlayVars, messages>>
       ELSE IF isComplete(responseText(r))
            THEN ManualOnComplete(o, r)
            ELSE ManualOnGuidance(o, r)
  /\ UNCHANGED <<lastScreenshot, clickVars, captureInProgress, isLoading>>

ManualPresented(o) ==
  /\ o.kind = "manual" /\ o.pc = "present"
  /\ \E axFound \in BOOLEAN : Present(resolveCoordinates(o.resp, axFound))
  /\ Finally(o)
  /\ lastOp' = "manual.end"
  /\ UNCHANGED <<currentGoal, lastGuidance, lastScreenshot,
                 hotkeyListenerCleanup, clickVars, captureInProgress,
                 messages, isLoading>>

\* Variant: reset() leaves the reentrancy guard as it is.
reset_KeepsGuard ==
  /\ stopMonitoring
  /\ currentGoal' = NoGoal
  /\ lastGuidance' = NullText
  /\ lastScreenshot' = NoFrame
  /\ messages' = <<>>
  /\ overlayVisible' = FALSE
  /\ lastOp' = "reset"
  /\ UNCHANGED <<isProcessing, clickVars, captureInProgress, isLoading,
                 highlight, ops>>

\* ------------------------------------------------------------------- reset
reset ==
  /\ stopMonitoring
  /\ currentGoal' = NoGoal
  /\ lastGuidance' = NullText
  /\ lastScreenshot' = NoFrame
  /\ isProcessing' = FALSE
  /\ messages' = <<>>
  /\ overlayVisible' = FALSE
  /\ lastOp' = "reset"
  /\ UNCHANGED <<clickVars, captureInProgress, isLoading, highlight, ops>>

\* -------------------------------------------------------- handleClickEvent
\* The awaits on showLoadingIndicator / hideLoadingIndicator are folded into
\* the step they follow: the capture is requested in the step that sets the
\* guard, and the completion branch is one step.
ClickSkips == isProcessing

handleClickEvent ==
  IF ClickSkips
  THEN UNCHANGED vars
  ELSE /\ CanStart /\ RoomFor(1)
       /\ isProcessing' = TRUE
       /\ Add(captureScreen(Op("click", "start")))
       /\ captureInProgress' = TRUE
       /\ lastOp' = "click.start"
       /\ UNCHANGED <<currentGoal, lastGuidance, lastScreenshot,
                      hotkeyListenerCleanup, clickVars, overlayVars,
                      messages, isLoading>>

\* The monitor process reports a click and main forwards it on 'mouse-click';
\* every registered listener calls handleClickEvent, and all calls after the
\* first find the guard set.
MouseClick == clickMonitorProcess /\ mouseClickListeners > 0 /\ handleClickEvent

ClickCaptured(o) ==
  /\ o.kind = "click" /\ o.pc = "capDone"
  /\ IF o.shot = NoFrame
     THEN /\ Finally(o)
          /\ lastOp' = "click.nocapture"
     ELSE /\ Replace(o, [o EXCEPT !.pc = "model", !.shot = NoFrame])
          /\ lastOp' = "click.model"
          /\ UNCHANGED isProcessing
  /\ UNCHANGED <<currentGoal, lastGuidance, lastScreenshot,
                 hotkeyListenerCleanup, clickVars, overlayVars,
                 captureInProgress, messages, isLoading>>

ClickOnComplete(o, r) ==
  /\ messages' = addMessage("assistant", celebrate(trim(responseText(r))))
  /\ overlayVisible' = FALSE
  /\ currentGoal' = NoGoal
  /\ lastGuidance' = NullText
  /\ stopMonitoring
  /\ Finally(o)
  /\ lastOp' = "click.complete"

ClickOnGuidance(o, r) ==
  /\ messages' = addMessage("assistant", parsedText(r))
  /\ lastGuidance' = parsedText(r)
  /\ Replace(o, [o EXCEPT !.pc = "present", !.resp = r])
  /\ lastOp' = "click.guidance"
  /\ UNCHANGED <<currentGoal, hotkeyListenerCleanup, overlayVisible,
                 isProcessing>>

\* Variant: the click-triggered cycle reports a model error in the chat.
ClickResponse_ReportsError(o) ==
  /\ o.kind = "click" /\ o.pc = "model"
  /\ \E r \in Responses :
       IF r.error \/ responseText(r) = EmptyText
       THEN /\ Finally(o)
            /\ lastOp' = "click.error"
            /\ messages' = addMessage("assistant", ErrorReply)
            /\ UNCHANGED <<currentGoal, lastGuidance, hotkeyListenerCleanup,
                           overlayVisible>>
       ELSE IF isComplete(responseText(r)) /\ currentGoal # NoGoal
            THEN ClickOnComplete(o, r)
            ELSE ClickOnGuidance(o, r)
  /\ UNCHANGED <<lastScreenshot, clickVars, captureInProgress, isLoading,
                 highlight>>

ClickResponse(o) ==
  /\ o.kind = "click" /\ o.pc = "model"
  /\ \E r \in Responses :
       IF r.error \/ responseText(r) = EmptyText
       THEN /\ Finally(o)
            /\ lastOp' = "click.error"
            /\ UNCHANGED <<currentGoal, lastGuidance, hotkeyListenerCleanup,
                           overlayVisible, messages>>
       ELSE IF isComplete(responseText(r)) /\ currentGoal # NoGoal
            THEN ClickOnComplete(o, r)
            ELSE ClickOnGuidance(o, r)
  /\ UNCHANGED <<lastScreenshot, clickVars, captureInProgress, isLoading,
                 highlight>>

\* The presentation either completes, or an overlay call rejects before
\* anything is shown and the catch block logs the exception.
ClickPresented(o) ==
  /\ o.kind = "click" /\ o.pc = "present"
  /\ \/ /\ \E axFound \in BOOLEAN :
              Present(resolveCoordinates(o.resp, axFound))
        /\ lastOp' = "click.end"
     \/ /\ UNCHANGED overlayVars
        /\ lastOp' = "click.threw"
  /\ Finally(o)
  /\ UNCHANGED <<currentGoal, lastGuidance, lastScreenshot,
                 hotkeyListenerCleanup, clickVars, captureInProgress,
                 messages, isLoading>>

\* ---------------------------------------------------------- checkForPopups
\* checkForPopups is private and no timer calls it in this revision; it is
\* modelled as invoked at any time, as a periodic watcher would.
PopupSkips == isProcessing \/ currentGoal = NoGoal

checkForPopups ==
  IF PopupSkips
  THEN UNCHANGED vars
  ELSE /\ CanStart /\ RoomFor(1)
       /\ Add(captureScreen(Op("popup", "start")))
       /\ captureInProgress' = TRUE
       /\ lastOp' = "popup.start"
       /\ UNCHANGED <<orchVars, clickVars, overlayVars, messages, isLoading>>

\* hasMajorScreenChange(screenshot) as checkForPopups uses it.
hasMajorScreenChange(screenshot) ==
  IF lastScreenshot = NoFrame THEN FALSE
  ELSE isMajorChange(screenshot, lastScreenshot)

PopupCaptured(o) ==
  /\ o.kind = "popup" /\ o.pc = "capDone"
  /\ IF o.shot = NoFrame
     THEN /\ Finally(o)
          /\ lastOp' = "popup.nocapture"
          /\ UNCHANGED lastScreenshot
     ELSE IF ~hasMajorScreenChange(o.shot)
          THEN /\ lastScreenshot' =
                    IF lastScreenshot = NoFrame THEN o.shot ELSE lastScreenshot
               /\ Finally(o)
               /\ lastOp' = IF lastScreenshot = NoFrame THEN "popup.first"
                                                      ELSE "popup.minor"
          ELSE /\ isProcessing' = TRUE
               /\ lastScreenshot' = o.shot
               /\ Replace(o, [o EXCEPT !.pc = "model", !.shot = NoFrame])
               /\ lastOp' = "popup.model"
  /\ UNCHANGED <<currentGoal, lastGuidance, hotkeyListenerCleanup, clickVars,
                 overlayVars, captureInProgress, messages, isLoading>>

PopupOnComplete(o, r) ==
  /\ messages' = addMessage("assistant", Party \o parsedText(r))
  /\ overlayVisible' = FALSE
  /\ currentGoal' = NoGoal
  /\ stopMonitoring
  /\ Finally(o)
  /\ lastOp' = "popup.complete"
  /\ UNCHANGED <<lastGuidance, highlight>>

\* Variant: the background guidance is appended without its marker.
PopupOnGuidance_NoMarker(o, r) ==
  /\ messages' = addMessage("assistant", parsedText(r))
  /\ lastGuidance' = parsedText(r)
  /\ IF presentAwaits(r)
     THEN /\ Replace(o, [o EXCEPT !.pc = "present", !.resp = r])
          /\ UNCHANGED <<isProcessing, highlight>>
     ELSE /\ highlight' = "none"
          /\ Finally(o)
  /\ lastOp' = "popup.guidance"
  /\ UNCHANGED <<currentGoal, hotkeyListenerCleanup, overlayVisible>>

PopupOnGuidance(o, r) ==
  /\ messages' = addMessage("assistant", ScreenChanged \o parsedText(r))
  /\ lastGuidance' = parsedText(r)
  /\ IF presentAwaits(r)
     THEN /\ Replace(o, [o EXCEPT !.pc = "present", !.resp = r])
          /\ UNCHANGED <<isProcessing, highlight>>
     ELSE /\ highlight' = "none"
          /\ Finally(o)
  /\ lastOp' = "popup.guidance"
  /\ UNCHANGED <<currentGoal, hotkeyListenerCleanup, overlayVisible>>

normalizedOld ==
  IF lastGuidance # NullText /\ lastGuidance # EmptyText
  THEN normalizeGuidance(lastGuidance) ELSE EmptyText

PopupResponse(o) ==
  /\ o.kind = "popup" /\ o.pc = "model"
  /\ \E r \in Responses :
       IF r.error \/ responseText(r) = EmptyText
       THEN /\ Finally(o)
            /\ lastOp' = "popup.error"
            /\ UNCHANGED <<currentGoal, lastGuidance, hotkeyListenerCleanup,
                           overlayVars, messages>>
       ELSE IF normalizeGuidance(responseText(r)) = normalizedOld
            THEN /\ Finally(o)
                 /\ lastOp' = "popup.same"
                 /\ UNCHANGED <<currentGoal, lastGuidance,
                                hotkeyListenerCleanup, overlayVars, messages>>
            ELSE IF isCompletePopup(responseText(r))
                 THEN PopupOnComplete(o, r)
                 ELSE PopupOnGuidance(o, r)
  /\ UNCHANGED <<lastScreenshot, clickVars, captureInProgress, isLoading>>

\* The presentation either completes, or an overlay call rejects before
\* anything is shown and the catch block logs the exception.
PopupPresented(o) ==
  /\ o.kind = "popup" /\ o.pc = "present"
  /\ \/ /\ \E axFound \in BOOLEAN :
              Present(resolveCoordinates(o.resp, axFound))
        /\ lastOp' = "popup.end"
     \/ /\ UNCHANGED overlayVars
        /\ lastOp' = "popup.threw"
  /\ Finally(o)
  /\ UNCHANGED <<currentGoal, lastGuidance, lastScreenshot,
                 hotkeyListenerCleanup, clickVars, captureInProgress,
                 messages, isLoading>>

\* ------------------------------------------------ global click monitoring
\* stopGlobalClickMonitoring + the start request.  The cleanup returned by
\* onMouseClick removes a function that was never registered (the preload
\* registers a wrapper), so calling it leaves the listeners as they are.
startGlobalClickMonitoring ==
  /\ globalClickMonitoringCleanup' = FALSE
  /\ pendingClickStarts' = pendingClickStarts + 1
  /\ UNCHANGED <<mouseClickListeners, clickMonitorProcess>>

\* Main handles stop-click-monitoring and start-click-monitoring, and the
\* renderer's then-callback registers the listener when it was started.
ClickMonitoringStarted ==
  /\ pendingClickStarts > 0
  /\ pendingClickStarts' = pendingClickStarts - 1
  /\ \E started \in BOOLEAN :
       /\ started => mouseClickListeners < MaxListeners
       /\ clickMonitorProcess' = started
       /\ IF started
          THEN /\ mouseClickListeners' = mouseClickListeners + 1
               /\ globalClickMonitoringCleanup' = TRUE
          ELSE UNCHANGED <<mouseClickListeners, globalClickMonitoringCleanup>>
  /\ lastOp' = "monitor.started"
  /\ UNCHANGED <<orchVars, overlayVars, captureInProgress, messages,
                 isLoading, ops>>

\* ------------------------------------- handleSubmit / processUserMessage
\* A message invocation is on the task path (kind "message") or in the
\* "done"/"next" branch of handleConversation (kind "recheck").
IsTaskPath(o) == o.kind = "message"

Label(o, step) == (IF IsTaskPath(o) THEN "message." ELSE "recheck.") \o step

\* processUserMessage returns: finally setLoading(false), then handleSubmit
\* adds the assistant message.
Return(o, text) ==
  /\ isLoading' = FALSE
  /\ messages' = addMessage("assistant", text)
  /\ Remove(o)

\* The message and the guidance mode are fixed when handleSubmit runs; as
\* nothing observes them before classifyIntentClaude returns and the mode is
\* used, the model draws them at those steps.
handleSubmit ==
  /\ ~isLoading
  /\ CanStart /\ RoomFor(2)
  /\ pendingClickStarts < MaxListeners
  /\ messages' = addMessage("user", UserText)
  /\ Add([Op("message", "classify") EXCEPT !.midCycle = isProcessing,
                                           !.goalBefore = currentGoal])
  /\ isLoading' = TRUE
  /\ startGlobalClickMonitoring
  /\ lastOp' = "message.start"
  /\ UNCHANGED <<orchVars, overlayVars, captureInProgress>>

cannedReply(conv) ==
  CASE conv = "hi" -> Greeting
    [] conv = "thank" -> Welcome
    [] conv = "done" -> WhatHelp
    [] OTHER -> HereToHelp

\* Variant: the "done"/"next" branch re-checks the screen without testing
\* that a goal is active.
MessageClassified_AlwaysRechecks(o) ==
  /\ o.kind = "message" /\ o.pc = "classify"
  /\ \E m \in UserMessages :
       IF m.isTask
       THEN /\ Replace(o, captureScreen([o EXCEPT !.task = m.task]))
            /\ captureInProgress' = TRUE
            /\ lastOp' = "message.capture"
            /\ UNCHANGED <<messages, isLoading>>
       ELSE IF m.conv = "done"
            THEN /\ Replace(o, captureScreen([o EXCEPT !.kind = "recheck"]))
                 /\ captureInProgress' = TRUE
                 /\ lastOp' = "recheck.capture"
                 /\ UNCHANGED <<messages, isLoading>>
            ELSE /\ Return(o, cannedReply(m.conv))
                 /\ lastOp' = "message.reply"
                 /\ UNCHANGED captureInProgress
  /\ UNCHANGED <<orchVars, clickVars, overlayVars>>

\* classifyIntentClaude returned.
MessageClassified(o) ==
  /\ o.kind = "message" /\ o.pc = "classify"
  /\ \E m \in UserMessages :
       IF m.isTask
       THEN /\ Replace(o, captureScreen([o EXCEPT !.task = m.task]))
            /\ captureInProgress' = TRUE
            /\ lastOp' = "message.capture"
            /\ UNCHANGED <<messages, isLoading>>
       ELSE IF m.conv = "done" /\ currentGoal # NoGoal
            THEN /\ Replace(o, captureScreen([o EXCEPT !.kind = "recheck"]))
                 /\ captureInProgress' = TRUE
                 /\ lastOp' = "recheck.capture"
                 /\ UNCHANGED <<messages, isLoading>>
            ELSE /\ Return(o, cannedReply(m.conv))
                 /\ lastOp' = "message.reply"
                 /\ UNCHANGED captureInProgress
  /\ UNCHANGED <<orchVars, clickVars, overlayVars>>

\* Variant: the guidance of the previous goal is kept.
SetGoal_KeepsGuidance(o) == currentGoal' = o.task /\ UNCHANGED lastGuidance

\* The task becomes the goal and the guidance of the previous goal is dropped.
SetGoal(o) == currentGoal' = o.task /\ lastGuidance' = NullText

\* Variant: the task becomes the goal before the screenshot is tested.
MessageCaptured_GoalBeforeCapture(o) ==
  /\ o.kind \in {"message", "recheck"} /\ o.pc = "capDone"
  /\ IF o.shot = NoFrame
     THEN /\ Return(o, IF IsTaskPath(o) THEN Apology ELSE WhatHelp)
          /\ lastOp' = Label(o, "nocapture")
          /\ IF IsTaskPath(o) THEN SetGoal(o)
             ELSE UNCHANGED <<currentGoal, lastGuidance>>
     ELSE IF IsTaskPath(o)
          THEN \E guidanceMode \in Modes :
                 IF guidanceMode = "single"
                 THEN /\ Replace(o, [o EXCEPT !.pc = "quick", !.shot = NoFrame])
                      /\ lastOp' = "message.quick"
                      /\ UNCHANGED <<currentGoal, lastGuidance, messages,
                                     isLoading>>
                 ELSE /\ SetGoal(o)
                      /\ Replace(o, [o EXCEPT !.pc = "model", !.shot = NoFrame])
                      /\ lastOp' = "message.goal"
                      /\ UNCHANGED <<messages, isLoading>>
          ELSE /\ Replace(o, [o EXCEPT !.pc = "model", !.shot = NoFrame])
               /\ lastOp' = "recheck.model"
               /\ UNCHANGED <<currentGoal, lastGuidance, messages, isLoading>>
  /\ UNCHANGED <<lastScreenshot, isProcessing, hotkeyListenerCleanup,
                 clickVars, overlayVars, captureInProgress>>

MessageCaptured(o) ==
  /\ o.kind \in {"message", "recheck"} /\ o.pc = "capDone"
  /\ IF o.shot = NoFrame
     THEN /\ Return(o, IF IsTaskPath(o) THEN Apology ELSE WhatHelp)
          /\ lastOp' = Label(o, "nocapture")
          /\ UNCHANGED <<currentGoal, lastGuidance>>
     ELSE IF IsTaskPath(o)
          THEN \E guidanceMode \in Modes :
                 IF guidanceMode = "single"
                 THEN /\ Replace(o, [o EXCEPT !.pc = "quick", !.shot = NoFrame])
                      /\ lastOp' = "message.quick"
                      /\ UNCHANGED <<currentGoal, lastGuidance, messages,
                                     isLoading>>
                 ELSE /\ SetGoal(o)
                      /\ Replace(o, [o EXCEPT !.pc = "model", !.shot = NoFrame])
                      /\ lastOp' = "message.goal"
                      /\ UNCHANGED <<messages, isLoading>>
          ELSE /\ Replace(o, [o EXCEPT !.pc = "model", !.shot = NoFrame])
               /\ lastOp' = "recheck.model"
               /\ UNCHANGED <<currentGoal, lastGuidance, messages, isLoading>>
  /\ UNCHANGED <<lastScreenshot, isProcessing, hotkeyListenerCleanup,
                 clickVars, overlayVars, captureInProgress>>

\* quickAnswerClaude returned (single mode).
MessageQuickAnswer(o) ==
  /\ o.kind = "message" /\ o.pc = "quick"
  /\ \E r \in QuickResponses :
       Return(o, IF r.error THEN ErrorReply ELSE responseText(r))
  /\ lastOp' = "message.answer"
  /\ UNCHANGED <<orchVars, clickVars, overlayVars, captureInProgress>>

\* analyzeScreenWithClaude returned, in steps mode or in the "done" branch of
\* handleConversation.
MessageResponse(o) ==
  /\ o.kind \in {"message", "recheck"} /\ o.pc = "model"
  /\ \E r \in Responses :
       IF r.error
       THEN /\ Return(o, IF IsTaskPath(o) THEN ErrorReply ELSE WhatHelp)
            /\ lastOp' = Label(o, "error")
            /\ UNCHANGED <<lastGuidance, hotkeyListenerCleanup, highlight>>
       ELSE /\ lastGuidance' = parsedText(r)
            /\ IF presentAwaits(r)
               THEN /\ Replace(o, [o EXCEPT !.pc = "present", !.resp = r])
                    /\ lastOp' = Label(o, "guidance")
                    /\ UNCHANGED <<hotkeyListenerCleanup, highlight, messages,
                                   isLoading>>
               ELSE /\ IF IsTaskPath(o)
                       THEN highlight' = "none" /\ startMonitoring
                       ELSE UNCHANGED <<highlight, hotkeyListenerCleanup>>
                    /\ Return(o, parsedText(r))
                    /\ lastOp' = Label(o, "done")
  /\ UNCHANGED <<currentGoal, lastScreenshot, isProcessing, clickVars,
                 overlayVisible, captureInProgress>>

MessagePresented(o) ==
  /\ o.kind \in {"message", "recheck"} /\ o.pc = "present"
  /\ \E axFound \in BOOLEAN :
       LET src == resolveCoordinates(o.resp, axFound) IN
         IF IsTaskPath(o) \/ src # "none"
         THEN Present(src)
         ELSE UNCHANGED overlayVars
  /\ IF IsTaskPath(o) THEN startMonitoring ELSE UNCHANGED hotkeyListenerCleanup
  /\ Return(o, parsedText(o.resp))
  /\ lastOp' = Label(o, "end")
  /\ UNCHANGED <<currentGoal, lastGuidance, lastScreenshot, isProcessing,
                 clickVars, captureInProgress>>

\* ---------------------------------------------------------- specification
Next ==
  \/ handleSubmit /\ UNCHANGED besidesCycles
  \/ HotkeyPressed /\ UNCHANGED besidesCycles
  \/ MouseClick /\ UNCHANGED besidesCycles
  \/ checkForPopups /\ UNCHANGED besidesCycles
  \/ reset /\ UNCHANGED besidesCycles
  \/ ClickMonitoringStarted /\ UNCHANGED besidesCycles
  \/ \E o \in InFlight :
       \/ MainCaptureFinish(o) /\ UNCHANGED besidesCycles
       \/ ManualCaptured(o) /\ UNCHANGED besidesCycles
       \/ ManualResponse(o) /\ UNCHANGED besidesCycles
       \/ ManualPresented(o) /\ UNCHANGED besidesCycles
       \/ ClickCaptured(o) /\ UNCHANGED besidesCycles
       \/ ClickResponse(o) /\ UNCHANGED besidesCycles
       \/ ClickPresented(o) /\ UNCHANGED besidesCycles
       \/ PopupCaptured(o) /\ UNCHANGED besidesCycles
       \/ PopupResponse(o) /\ UNCHANGED besidesCycles
       \/ PopupPresented(o) /\ UNCHANGED besidesCycles
       \/ MessageClassified(o) /\ UNCHANGED besidesCycles
       \/ MessageCaptured(o) /\ UNCHANGED besidesCycles
       \/ MessageQuickAnswer(o) /\ UNCHANGED besidesCycles
       \/ MessageResponse(o) /\ UNCHANGED besidesCycles
       \/ MessagePresented(o) /\ UNCHANGED besidesCycles

Spec == Init /\ [][Next]_vars

\* ------------------------------------------------- observations on states
NumIn(bag, Test(_)) ==
  LET S == {o \in BagToSet(bag) : Test(o)}
  IN BagCardinality([o \in S |-> CopiesIn(o, bag)])

IsManual(o) == o.kind = "manual"
IsUserCycle(o) == o.kind \in {"manual", "click"}
IsBackground(o) == o.kind = "popup"
IsUserMessage(o) == o.kind \in {"message", "recheck"}
AwaitsModel(o) == o.pc = "model"
BackgroundAwaitsModel(o) == IsBackground(o) /\ AwaitsModel(o)

\* One message was appended to the chat, by the assistant.
OneMessageAdded ==
  /\ Len(messages') = Len(messages) + 1
  /\ SubSeq(messages', 1, Len(messages)) = messages
  /\ messages'[Len(messages')].role = "assistant"
AddedContent == messages'[Len(messages')].content

\* Steps at which a model response that is not an error is consumed.
ResponseSteps ==
  {"manual.complete", "manual.guidance", "click.complete", "click.guidance",
   "popup.complete", "popup.guidance", "popup.same",
   "message.guidance", "message.done", "recheck.guidance", "recheck.done"}

\* ------------------------------------------------------------------ claims
\* C1: a triggerManualCheck() invoked while isProcessing is true and an
\* earlier manual cycle is still suspended at its capture or model await
\* starts nothing: the number of manual cycles in flight (each is one capture
\* and at most one model call) does not grow.
C1_OverlappingManualCheckSkipped ==
  [][(isProcessing /\ NumIn(ops, IsManual) > 0)
       => NumIn(ops', IsManual) <= NumIn(ops, IsManual)]_vars

\* The hotkey can be pressed again while a manual cycle holds the guard.
C1_Witness ==
  /\ hotkeyListenerCleanup
  /\ isProcessing
  /\ currentGoal # NoGoal
  /\ \E o \in InFlight : IsManual(o) /\ o.pc \in {"capBusy", "model"}

\* C2 as the spec states it: a processUserMessage() entered while a cycle
\* held the guard never has a guidance model request in flight next to the
\* model request of a manual, click-triggered or background cycle.
\* processUserMessage does not test the guard, so this is violated.
C2_MidCycleMessageShortCircuits ==
  \A o \in InFlight : \A p \in InFlight :
    ~(IsUserMessage(o) /\ o.midCycle /\ AwaitsModel(o)
        /\ (IsUserCycle(p) \/ IsBackground(p)) /\ AwaitsModel(p))

\* C3 as the spec states it: a background check and a manual or
\* click-triggered check never both await the model.  checkForPopups tests
\* the guard before its capture and sets it after, so this is violated.
C3_BackgroundNeverOverlapsUserCheck ==
  \A o \in InFlight : \A p \in InFlight :
    ~(BackgroundAwaitsModel(o) /\ IsUserCycle(p) /\ AwaitsModel(p))

\* C4 as the spec states it: a model response consumed right after reset()
\* adds no message, leaves currentGoal and lastGuidance null, shows nothing
\* and does not restart monitoring.  No consumer checks for the reset, so
\* this is violated.
C4_StaleResponseIsNoOp ==
  [][(lastOp = "reset" /\ lastOp' \in ResponseSteps)
       => /\ messages' = messages
          /\ currentGoal' = NoGoal
          /\ lastGuidance' = NullText
          /\ ~overlayVisible'
          /\ ~hotkeyListenerCleanup']_vars

\* C5: every reset() ends with currentGoal, lastGuidance and lastScreenshot
\* null, isProcessing false, the hotkey listener unregistered and the overlay
\* hidden, and a reset() that follows a reset() changes nothing.
C5_ResetClearsAndIsIdempotent ==
  [][lastOp' = "reset"
       => /\ currentGoal' = NoGoal
          /\ lastGuidance' = NullText
          /\ lastScreenshot' = NoFrame
          /\ ~isProcessing'
          /\ ~hotkeyListenerCleanup'
          /\ ~overlayVisible'
          /\ (lastOp = "reset" => UNCHANGED vars)]_vars

\* reset() ran while a guarded cycle was suspended and the overlay was shown.
C5_Witness ==
  /\ lastOp = "reset"
  /\ highlight # "none"
  /\ \E o \in InFlight : IsUserCycle(o) /\ AwaitsModel(o)

\* C6 as the spec states it: the step after reset() never starts a manual or
\* click-triggered cycle.  Violated: the click listener outlives reset().
C6_NoCycleStartsAfterReset ==
  [][lastOp = "reset" => lastOp' \notin {"manual.start", "click.start"}]_vars

\* C6, amended: reset() unregisters the hotkey listener and leaves the global
\* click monitoring as it was; a manual cycle starts only while the hotkey
\* listener is registered, and only a processUserMessage() that returns
\* steps-mode guidance registers it again.
C6_ResetStopsHotkeyOnly ==
  [][/\ lastOp' = "reset"
          => ~hotkeyListenerCleanup' /\ UNCHANGED clickVars
     /\ ~hotkeyListenerCleanup => lastOp' # "manual.start"
     /\ (~hotkeyListenerCleanup /\ hotkeyListenerCleanup')
          => lastOp' \in {"message.done", "message.end"}]_vars

\* A click started a cycle after reset() and before any further message (the
\* chat is still empty), with no goal and no hotkey listener.
C6_Witness ==
  /\ lastOp = "click.start"
  /\ messages = <<>>
  /\ currentGoal = NoGoal
  /\ ~hotkeyListenerCleanup
  /\ clickMonitorProcess /\ mouseClickListeners > 0

\* C7: a complete response in triggerManualCheck() appends exactly one
\* message, the celebration, clears the goal, unregisters the hotkey listener,
\* hides the overlay and leaves lastGuidance as it was; any other response
\* appends the guidance, stores it in lastGuidance and goes on to resolve and
\* present coordinates (or clears the highlights when there are none).
C7_ManualCompletionVersusGuidance ==
  [][/\ lastOp' = "manual.complete"
          => /\ OneMessageAdded
             /\ startsWith(AddedContent, Party)
             /\ currentGoal' = NoGoal
             /\ ~hotkeyListenerCleanup'
             /\ ~overlayVisible'
             /\ lastGuidance' = lastGuidance
     /\ lastOp' = "manual.guidance"
          => /\ OneMessageAdded
             /\ ~startsWith(AddedContent, Party)
             /\ lastGuidance' = AddedContent
             /\ currentGoal' = currentGoal
             /\ \/ \E o \in BagToSet(ops') : IsManual(o) /\ o.pc = "present"
                \/ highlight' = "none"]_vars

\* A manual check has just detected completion; the guidance given before it
\* is still stored.
C7_Witness ==
  /\ lastOp = "manual.complete"
  /\ currentGoal = NoGoal
  /\ lastGuidance # NullText
  /\ startsWith(messages[Len(messages)].content, Party)

C9_SkippedManualCheckChangesNothing ==
  [][((isProcessing \/ currentGoal = NoGoal) /\ triggerManualCheck)
       => UNCHANGED <<currentGoal, lastGuidance, lastScreenshot, isProcessing,
                      messages, captureInProgress, ops>>]_vars

\* The hotkey listener is registered although no goal is active.
C9_Witness ==
  /\ hotkeyListenerCleanup
  /\ currentGoal = NoGoal
  /\ ~isProcessing
  /\ ~captureInProgress

\* C10: the background check calls the model only when a previous frame is
\* stored and the new frame's length differs from it by at least
\* POPUP_DETECTION_THRESHOLD; a smaller difference ends the check with no
\* model call and no message.
C10_MinorChangeCallsNoModel ==
  [][/\ NumIn(ops', BackgroundAwaitsModel) > NumIn(ops, BackgroundAwaitsModel)
          => /\ lastScreenshot # NoFrame
             /\ Abs(lastScreenshot' - lastScreenshot) >= POPUP_DETECTION_THRESHOLD
     /\ lastOp' = "popup.minor"
          => /\ messages' = messages
             /\ NumIn(ops', AwaitsModel) <= NumIn(ops, AwaitsModel)
             /\ NumIn(ops', IsBackground) < NumIn(ops, IsBackground)]_vars

\* A background check has just ended on a minor change.
C10_Witness ==
  /\ lastOp = "popup.minor"
  /\ lastScreenshot # NoFrame
  /\ currentGoal # NoGoal

\* An invocation that was suspended before the step and was resumed by it.
Resumed(o) == CopiesIn(o, ops') < CopiesIn(o, ops)

\* C11: a background check that resumes with a frame whose length differs
\* from the stored frame by at least POPUP_DETECTION_THRESHOLD issues exactly
\* one model call, and the message a background check appends for a response
\* that is not a completion begins with the "screen changed" marker (a
\* completion gets the celebration prefix instead).
C11_MajorChangeCallsModelOnce ==
  [][/\ \A o \in InFlight :
          (/\ IsBackground(o) /\ o.pc = "capDone" /\ Resumed(o)
           /\ o.shot # NoFrame /\ lastScreenshot # NoFrame
           /\ Abs(o.shot - lastScreenshot) >= POPUP_DETECTION_THRESHOLD)
            => /\ lastOp' = "popup.model"
               /\ NumIn(ops', BackgroundAwaitsModel)
                    = NumIn(ops, BackgroundAwaitsModel) + 1
               /\ NumIn(ops', IsBackground) = NumIn(ops, IsBackground)
     /\ lastOp' \in {"popup.guidance", "popup.complete", "popup.same",
                     "popup.error"}
          => NumIn(ops', BackgroundAwaitsModel)
               = NumIn(ops, BackgroundAwaitsModel) - 1
     /\ lastOp' = "popup.guidance"
          => /\ OneMessageAdded
             /\ startsWith(AddedContent, <<"bulb", "changed">>)
     /\ lastOp' = "popup.complete"
          => /\ OneMessageAdded
             /\ startsWith(AddedContent, <<"party", " ">>)]_vars

\* A background check has just appended guidance for a major change.
C11_Witness ==
  /\ lastOp = "popup.guidance"
  /\ messages # <<>>
  /\ startsWith(messages[Len(messages)].content, <<"bulb", "changed">>)
  /\ lastScreenshot # NoFrame

\* C12 as the spec states it: a background check never appends guidance whose
\* normalized text equals the normalized previous guidance.  checkForPopups
\* normalizes response.text with its structured fragment still in it and
\* compares that with the stored, fragment-free lastGuidance, so a repeated
\* guidance that carries a fragment is sent again: violated.
C12_RepeatedGuidanceIsSkipped ==
  [][lastOp' = "popup.guidance"
       => normalizeGuidance(lastGuidance')
            # (IF lastGuidance \in {NullText, EmptyText} THEN EmptyText
               ELSE normalizeGuidance(lastGuidance))]_vars

\* Steps of processUserMessage on the conversational path (isTask = false).
ConversationSteps ==
  {"message.reply", "recheck.capture", "recheck.nocapture", "recheck.model",
   "recheck.error", "recheck.guidance", "recheck.done", "recheck.end"}

C14_CaptureFailureApologizes ==
  [][/\ \A o \in InFlight :
          (/\ o.kind = "message" /\ o.pc = "capDone" /\ o.shot = NoFrame
           /\ Resumed(o))
            => lastOp' = "message.nocapture"
     /\ lastOp' \in {"message.start", "message.capture", "message.nocapture"}
          => UNCHANGED <<currentGoal, lastGuidance>>
     /\ lastOp' = "message.nocapture"
          => /\ OneMessageAdded
             /\ AddedContent = Apology
             /\ ~isLoading'
             /\ NumIn(ops', IsUserMessage) = NumIn(ops, IsUserMessage) - 1
             /\ NumIn(ops', AwaitsModel) = NumIn(ops, AwaitsModel)
             /\ BagCardinality(ops') = BagCardinality(ops) - 1
             /\ captureInProgress' = captureInProgress
             /\ UNCHANGED <<lastScreenshot, isProcessing, highlight>>]_vars

\* The apology was returned while an earlier goal and its guidance stood.
C14_Witness ==
  /\ lastOp = "message.nocapture"
  /\ messages # <<>>
  /\ messages[Len(messages)].content = Apology
  /\ currentGoal # NoGoal
  /\ lastGuidance \notin {NullText, EmptyText}

\* C15 as the spec states it, for processUserMessage: when the model call
\* returns an error, currentGoal after the operation is what it was when the
\* operation began.  The goal is replaced before the model is called and is
\* not restored on error: violated.
C15_MessageErrorKeepsGoal ==
  [][lastOp' = "message.error"
       => \A o \in InFlight :
            (o.kind = "message" /\ o.pc = "model" /\ Resumed(o))
              => currentGoal' = o.goalBefore]_vars

\* Steps in which a click-triggered or background cycle ends on a failure.
BackgroundFailures ==
  {"click.nocapture", "click.error", "click.threw",
   "popup.nocapture", "popup.error", "popup.threw"}

\* C16: a click-triggered or background cycle that meets a failed capture, a
\* model error, an empty response or an exception ends in that step without
\* adding a chat message: the chat is unchanged, the invocation is gone and
\* the guard is released.
C16_BackgroundFailuresAreSilent ==
  [][/\ lastOp' \in BackgroundFailures
          => /\ messages' = messages
             /\ isLoading' = isLoading
             /\ BagCardinality(ops') = BagCardinality(ops) - 1
             /\ ~isProcessing'
     /\ \A o \in InFlight :
          (/\ o.kind \in {"click", "popup"} /\ Resumed(o)
           /\ o.pc = "capDone" /\ o.shot = NoFrame)
            => lastOp' \in {"click.nocapture", "popup.nocapture"}]_vars

\* A click-triggered cycle failed at the model while the chat held messages.
C16_Witness ==
  /\ lastOp = "click.error"
  /\ messages # <<>>
  /\ ~isProcessing

\* C19 as the spec states it, for the conversational "done"/"next" re-check:
\* when the response carries neither a target nor coordinates, so that
\* resolveCoordinates returns null, the cycle ends with no highlight shown.
\* handleConversation has no else branch after resolveCoordinates and the
\* previous highlight stays: violated.
C19_UnresolvedRecheckClearsHighlight ==
  [][lastOp' = "recheck.done" => highlight' = "none"]_vars

\* ------------------------------------------ coordinate resolution in detail
\* ipcMain.handle('find-element-accessibility'): null off macOS, otherwise
\* what the element search ends with.
findElementAccessibility(env, lookup) ==
  IF env.platform # "darwin" THEN [kind |-> "null", box |-> NoBox]
  ELSE lookup

\* The accessibility box is converted from top-left to centre.
resolveCoordinatesViaAccessibility(target, env, lookup) ==
  IF ~env.hasWindow THEN NoCoordinates
  ELSE IF ~env.hasElectronAPI THEN NoCoordinates
  ELSE IF ~env.hasFindElement THEN NoCoordinates
  ELSE IF env.processDefined /\ env.platform # "darwin" THEN NoCoordinates
  ELSE LET result == findElementAccessibility(env, lookup)
       IN IF result.kind = "box"
          THEN [defined |-> TRUE,
                x2 |-> 2 * result.box.x + result.box.width,
                y2 |-> 2 * result.box.y + result.box.height,
                width |-> result.box.width,
                height |-> result.box.height,
                coordinateSource |-> "accessibility"]
          ELSE NoCoordinates

\* Variant: the AI coordinates are used whenever they are present.
resolve_PrefersFallback(target, fallbackCoords, env, lookup) ==
  IF fallbackCoords.defined
  THEN [defined |-> TRUE, x2 |-> 2 * fallbackCoords.x,
        y2 |-> 2 * fallbackCoords.y, width |-> fallbackCoords.width,
        height |-> fallbackCoords.height, coordinateSource |-> "ai"]
  ELSE IF target.defined /\ target.text # ""
       THEN resolveCoordinatesViaAccessibility(target, env, lookup)
       ELSE NoCoordinates

\* Variant: the AI coordinates are converted from top-left to centre too.
resolve_CentersFallback(target, fallbackCoords, env, lookup) ==
  LET accessibilityCoords ==
        IF target.defined /\ target.text # ""
        THEN resolveCoordinatesViaAccessibility(target, env, lookup)
        ELSE NoCoordinates
  IN IF accessibilityCoords.defined THEN accessibilityCoords
     ELSE IF fallbackCoords.defined
          THEN [defined |-> TRUE,
                x2 |-> 2 * fallbackCoords.x
                         + (IF fallbackCoords.width = NoSize THEN 0
                            ELSE fallbackCoords.width),
                y2 |-> 2 * fallbackCoords.y
                         + (IF fallbackCoords.height = NoSize THEN 0
                            ELSE fallbackCoords.height),
                width |-> fallbackCoords.width,
                height |-> fallbackCoords.height,
                coordinateSource |-> "ai"]
          ELSE NoCoordinates

\* resolveCoordinates: the accessibility result when the target has a text
\* and the lookup finds it, else the AI coordinates as they are, else null.
resolve(target, fallbackCoords, env, lookup) ==
  LET accessibilityCoords ==
        IF target.defined /\ target.text # ""
        THEN resolveCoordinatesViaAccessibility(target, env, lookup)
        ELSE NoCoordinates
  IN IF accessibilityCoords.defined THEN accessibilityCoords
     ELSE IF fallbackCoords.defined
          THEN [defined |-> TRUE, x2 |-> 2 * fallbackCoords.x,
                y2 |-> 2 * fallbackCoords.y, width |-> fallbackCoords.width,
                height |-> fallbackCoords.height, coordinateSource |-> "ai"]
          ELSE NoCoordinates

\* A cycle calls resolveCoordinates with what it parsed from the response.
ResolveCalled ==
  /\ resolveCall.pc # "called"
  /\ \E target \in Targets, fallbackCoords \in FallbackCoords,
        env \in Environments, lookup \in Lookups :
       resolveCall' = [pc |-> "called", target |-> target,
                       fallbackCoords |-> fallbackCoords, env |-> env,
                       lookup |-> lookup]
  /\ resolveResult' = NoCoordinates
  /\ UNCHANGED besidesResolve

ResolveReturned ==
  /\ resolveCall.pc = "called"
  /\ resolveResult' = resolve(resolveCall.target, resolveCall.fallbackCoords,
                              resolveCall.env, resolveCall.lookup)
  /\ resolveCall' = [resolveCall EXCEPT !.pc = "returned"]
  /\ UNCHANGED besidesResolve

ResolveNext == ResolveCalled \/ ResolveReturned

ResolveSpec == Init /\ [][ResolveNext]_vars

\* The call has returned; its arguments are still in resolveCall.
Resolved == resolveCall.pc = "returned"

\* The target has a text, the renderer can reach the accessibility lookup,
\* and the lookup returns a box.
LookupReturnsBox ==
  /\ resolveCall.target.defined /\ resolveCall.target.text # ""
  /\ resolveCall.env.hasWindow /\ resolveCall.env.hasElectronAPI
  /\ resolveCall.env.hasFindElement
  /\ resolveCall.env.platform = "darwin"
  /\ resolveCall.lookup.kind = "box"

\* C17: when the target has a non-empty text and its accessibility lookup
\* returns the box (x, y, width, height), resolveCoordinates returns source
\* "accessibility", the point (x + width/2, y + height/2) and the width and
\* height of the box, whatever the fallback coordinates are.
C17_AccessibilityBoxWins ==
  (Resolved /\ LookupReturnsBox)
    => /\ resolveResult.defined
       /\ resolveResult.coordinateSource = "accessibility"
       /\ resolveResult.x2
            = 2 * resolveCall.lookup.box.x + resolveCall.lookup.box.width
       /\ resolveResult.y2
            = 2 * resolveCall.lookup.box.y + resolveCall.lookup.box.height
       /\ resolveResult.width = resolveCall.lookup.box.width
       /\ resolveResult.height = resolveCall.lookup.box.height

\* The box of odd width was found while AI coordinates were present.
C17_Witness ==
  /\ Resolved /\ LookupReturnsBox
  /\ resolveCall.fallbackCoords.defined
  /\ resolveCall.lookup.box.width = 5
  /\ resolveResult.coordinateSource = "accessibility"

\* C18: when the lookup is not made or gives no box (no target, empty text,
\* capability absent, not macOS, exception, element not found) and fallback
\* coordinates are present, resolveCoordinates returns the fallback's x, y,
\* width and height unchanged with source "ai"; source "accessibility" is
\* returned only when the lookup returned a box.
C18_FallbackReturnedUnchanged ==
  /\ (Resolved /\ ~LookupReturnsBox /\ resolveCall.fallbackCoords.defined)
       => /\ resolveResult.defined
          /\ resolveResult.coordinateSource = "ai"
          /\ resolveResult.x2 = 2 * resolveCall.fallbackCoords.x
          /\ resolveResult.y2 = 2 * resolveCall.fallbackCoords.y
          /\ resolveResult.width = resolveCall.fallbackCoords.width
          /\ resolveResult.height = resolveCall.fallbackCoords.height
  /\ (Resolved /\ resolveResult.coordinateSource = "accessibility")
       => LookupReturnsBox

\* The lookup threw for a target with a text and the fallback was returned.
C18_Witness ==
  /\ Resolved
  /\ resolveCall.target.text # ""
  /\ resolveCall.env.hasFindElement /\ resolveCall.env.platform = "darwin"
  /\ resolveCall.lookup.kind = "throws"
  /\ resolveCall.fallbackCoords.width # NoSize
  /\ resolveResult.coordinateSource = "ai"

\* --------------------------------------------- the overlay page in detail
\* The renderer's calls reach the main process in the order they are made,
\* and the main process's sends reach the overlay page in the order they are
\* sent; a send is taken as delivered when it is made.

\* 'clear-overlay-highlights' is forwarded at once as 'clear-highlights', and
\* the page runs clearAllHighlights().
clearAllHighlights == highlights' = {}

\* ReactiveOrchestrator.clearHighlights(), called on its own when no
\* coordinates were resolved.
clearHighlights ==
  /\ clearAllHighlights
  /\ UNCHANGED <<pendingShows, now, besidesOverlayPage>>

\* ReactiveOrchestrator.showHighlight(): clearHighlights(), then
\* showOverlayHighlight with the id highlight-<Date.now()>; the main process
\* sends 'show-highlight' from a timer of SHOW_HIGHLIGHT_DELAY ms.
showHighlight ==
  /\ Len(pendingShows) < MaxPending
  /\ clearAllHighlights
  /\ pendingShows' = Append(pendingShows,
                            [id |-> now, due |-> now + SHOW_HIGHLIGHT_DELAY])
  /\ UNCHANGED <<now, besidesOverlayPage>>

\* The timer fires: 'show-highlight' is sent and the page runs
\* drawHighlight(), which is highlights.set(id, ...).
drawHighlight ==
  /\ pendingShows # <<>>
  /\ Head(pendingShows).due <= now
  /\ highlights' = highlights \cup {Head(pendingShows).id}
  /\ pendingShows' = Tail(pendingShows)
  /\ UNCHANGED <<now, besidesOverlayPage>>

\* Time passes, by a millisecond or by the delay of the timer.
Ticks(t) == (t % SHOW_HIGHLIGHT_DELAY) + (t \div SHOW_HIGHLIGHT_DELAY)

Tick ==
  /\ Ticks(now) < MaxTicks
  /\ \E d \in {1, SHOW_HIGHLIGHT_DELAY} : now' = now + d
  /\ UNCHANGED <<highlights, pendingShows, besidesOverlayPage>>

OverlayNext == showHighlight \/ clearHighlights \/ drawHighlight \/ Tick

OverlaySpec == Init /\ [][OverlayNext]_vars

\* C20 as the spec states it: after any sequence of presentations and clears
\* the overlay holds at most one highlight.  'show-highlight' is sent from a
\* timer while 'clear-highlights' is sent at once, so two presentations
\* within the delay are both drawn after both clears: violated.
C20_AtMostOneHighlight == Cardinality(highlights) <= 1

\* ------------------------------------- the text shown for a model response
\* A response without error reaches one of the cycles.
ReplyArrives ==
  /\ reply.pc # "arrived"
  /\ \E r \in ReplyResponses, path \in ReplyPaths, goalActive \in BOOLEAN :
       reply' = [NoReply EXCEPT !.pc = "arrived", !.path = path, !.resp = r,
                                !.goalActive = goalActive]
  /\ UNCHANGED besidesReply

\* triggerManualCheck: nothing for an empty text; the trimmed response behind
\* the celebration on completion, else parsed.text.
ManualReplies ==
  /\ reply.pc = "arrived" /\ reply.path = "manual"
  /\ LET r == reply.resp
         done == isComplete(responseText(r))
     IN reply' =
          IF responseText(r) = EmptyText
          THEN [reply EXCEPT !.pc = "shown"]
          ELSE [reply EXCEPT !.pc = "shown", !.shown = TRUE,
                             !.complete = done,
                             !.content = IF done
                                         THEN celebrate(trim(responseText(r)))
                                         ELSE parsedText(r)]
  /\ UNCHANGED besidesReply

\* handleClickEvent: as the manual check, but the completion branch is taken
\* only while a goal is active.
ClickReplies ==
  /\ reply.pc = "arrived" /\ reply.path = "click"
  /\ LET r == reply.resp
         done == isComplete(responseText(r))
     IN reply' =
          IF responseText(r) = EmptyText
          THEN [reply EXCEPT !.pc = "shown"]
          ELSE [reply EXCEPT !.pc = "shown", !.shown = TRUE,
                             !.complete = done,
                             !.content = IF done /\ reply.goalActive
                                         THEN celebrate(trim(responseText(r)))
                                         ELSE parsedText(r)]
  /\ UNCHANGED besidesReply

\* checkForPopups, for a response that differs from the last guidance.
PopupReplies ==
  /\ reply.pc = "arrived" /\ reply.path = "popup"
  /\ LET r == reply.resp
         done == isCompletePopup(responseText(r))
     IN reply' =
          IF responseText(r) = EmptyText
          THEN [reply EXCEPT !.pc = "shown"]
          ELSE [reply EXCEPT !.pc = "shown", !.shown = TRUE,
                             !.complete = done,
                             !.content = IF done
                                         THEN Party \o parsedText(r)
                                         ELSE ScreenChanged \o parsedText(r)]
  /\ UNCHANGED besidesReply

\* processUserMessage in steps mode and the "done"/"next" re-check return
\* parsed.text.
MessageReplies ==
  /\ reply.pc = "arrived" /\ reply.path \in {"message", "recheck"}
  /\ reply' = [reply EXCEPT !.pc = "shown", !.shown = TRUE,
                            !.content = parsedText(reply.resp)]
  /\ UNCHANGED besidesReply

ReplyNext ==
  \/ ReplyArrives
  \/ ManualReplies
  \/ ClickReplies
  \/ PopupReplies
  \/ MessageReplies

ReplySpec == Init /\ [][ReplyNext]_vars

\* C21 as the spec states it: when the response carries a structured
\* fragment, the text shown for it does not contain the fragment.  The
\* completion messages of the manual and click-triggered cycles are built
\* from the trimmed response, not from parsed.text: violated.
C21_ShownTextHasNoFragment ==
  (reply.pc = "shown" /\ reply.shown /\ reply.resp.loc # "none")
    => ~includes(reply.content, <<"{">>)

\* C22 as the spec states it: the manual, click-triggered and background
\* checks classify every response text alike, as complete exactly when the
\* trimmed lower-cased text starts with "done!", "done.", "complete!",
\* "finished!", "success!" or the celebratory symbol, or contains
\* "successfully" and "created", or contains "goal" and "achieved".  The
\* background check tests neither "success!" nor "goal"/"achieved": violated.
C22_OneCompletionClassifier ==
  (reply.pc = "shown" /\ reply.shown
   /\ reply.path \in {"manual", "click", "popup"})
    => reply.complete
         = LET t == toLowerCase(trim(responseText(reply.resp))) IN
             \/ \E w \in {"done!", "done.", "complete!", "finished!",
                          "success!", "party"} : startsWith(t, Word(w))
             \/ includes(t, Word("successfully")) /\ includes(t, Word("created"))
             \/ includes(t, Word("goal")) /\ includes(t, Word("achieved"))

\* --------------------------------------------------- classifyIntentClaude
\* Variant: the length test is made on the trimmed message.
localAnswer_TrimmedLength(userMessage) ==
  LET lower == trim(toLowerCase(userMessage)) IN
    IF lower \in GreetingTokens
    THEN [decided |-> TRUE, isTask |-> FALSE, task |-> <<>>]
    ELSE IF Len(trim(userMessage)) > TASK_MIN_LENGTH
            /\ \E k \in TaskKeywords : includes(lower, k)
         THEN [decided |-> TRUE, isTask |-> TRUE, task |-> userMessage]
         ELSE [decided |-> FALSE, isTask |-> FALSE, task |-> <<>>]

\* The two local tests, made before any request: a greeting token, then a
\* long enough message with a task keyword.
localAnswer(userMessage) ==
  LET lower == trim(toLowerCase(userMessage)) IN
    IF lower \in GreetingTokens
    THEN [decided |-> TRUE, isTask |-> FALSE, task |-> <<>>]
    ELSE IF Len(userMessage) > TASK_MIN_LENGTH
            /\ \E k \in TaskKeywords : includes(lower, k)
         THEN [decided |-> TRUE, isTask |-> TRUE, task |-> userMessage]
         ELSE [decided |-> FALSE, isTask |-> FALSE, task |-> <<>>]

\* Variant: a reply that cannot be used is taken as "not a task".
modelAnswer_FailsSilent(userMessage, outcome) ==
  IF outcome.kind \in {"throws", "malformed", "jsonNull"}
  THEN [isTask |-> FALSE, task |-> <<>>]
  ELSE IF outcome.kind = "empty"
       THEN [isTask |-> FALSE, task |-> userMessage]
       ELSE [isTask |-> outcome.isTask = "true",
             task |-> IF outcome.task = <<>> THEN userMessage
                      ELSE outcome.task]

\* What is returned once the request has ended.  An empty content is read as
\* '{}'; reading a field of the JSON null throws inside the inner try.
modelAnswer(userMessage, outcome) ==
  IF outcome.kind \in {"throws", "malformed", "jsonNull"}
  THEN [isTask |-> TRUE, task |-> userMessage]
  ELSE IF outcome.kind = "empty"
       THEN [isTask |-> FALSE, task |-> userMessage]
       ELSE [isTask |-> outcome.isTask = "true",
             task |-> IF outcome.task = <<>> THEN userMessage
                      ELSE outcome.task]

\* processUserMessage calls classifyIntentClaude(userMessage).
ClassifyCalled ==
  /\ intent.pc \in {"idle", "returned"}
  /\ \E userMessage \in IntentMessages, outcome \in IntentOutcomes :
       intent' = [NoIntent EXCEPT !.pc = "called",
                                  !.userMessage = userMessage,
                                  !.outcome = outcome]
  /\ UNCHANGED besidesIntent

\* A local test decides and the function returns without a request.
ClassifyLocally ==
  /\ intent.pc = "called"
  /\ localAnswer(intent.userMessage).decided
  /\ intent' = [intent EXCEPT
                  !.pc = "returned",
                  !.isTask = localAnswer(intent.userMessage).isTask,
                  !.task = localAnswer(intent.userMessage).task]
  /\ UNCHANGED besidesIntent

\* No local test decides: the request is made and awaited.
ClassifyAsks ==
  /\ intent.pc = "called"
  /\ ~localAnswer(intent.userMessage).decided
  /\ intent' = [intent EXCEPT !.pc = "asked", !.calls = @ + 1]
  /\ UNCHANGED besidesIntent

\* The request has ended.
ClassifyAnswered ==
  /\ intent.pc = "asked"
  /\ intent' = [intent EXCEPT
                  !.pc = "returned",
                  !.isTask = modelAnswer(intent.userMessage, intent.outcome).isTask,
                  !.task = modelAnswer(intent.userMessage, intent.outcome).task]
  /\ UNCHANGED besidesIntent

IntentNext ==
  \/ ClassifyCalled
  \/ ClassifyLocally
  \/ ClassifyAsks
  \/ ClassifyAnswered

IntentSpec == Init /\ [][IntentNext]_vars

\* The message, trimmed and lower-cased, is a greeting token.
IsGreeting == trim(toLowerCase(intent.userMessage)) \in GreetingTokens

\* The message is longer than the minimum and contains a task keyword.
IsKeywordTask ==
  /\ Len(intent.userMessage) > 10
  /\ \E k \in TaskKeywords : includes(toLowerCase(intent.userMessage), k)

\* C23: classifyIntentClaude answers without a request when the trimmed,
\* lower-cased message equals a greeting token (not a task) and otherwise
\* when the message is longer than 10 characters and contains a task keyword
\* (a task, described by the message verbatim); in every other case it makes
\* exactly one request.
C23_PrefiltersBeforeOneModelCall ==
  /\ intent.pc = "asked" => intent.calls = 1 /\ ~IsGreeting /\ ~IsKeywordTask
  /\ intent.pc = "returned"
       => /\ IsGreeting
               => intent.calls = 0 /\ ~intent.isTask /\ intent.task = <<>>
          /\ (~IsGreeting /\ IsKeywordTask)
               => /\ intent.calls = 0 /\ intent.isTask
                  /\ intent.task = intent.userMessage
          /\ (~IsGreeting /\ ~IsKeywordTask) => intent.calls = 1

\* A padded keyword message was taken as a task, padding included.
C23_Witness ==
  /\ intent.pc = "returned" /\ intent.calls = 0 /\ intent.isTask
  /\ Len(trim(intent.userMessage)) <= 10
  /\ intent.task = intent.userMessage

\* C24: when the request fails or its reply is not JSON, classifyIntentClaude
\* returns isTask = true with the original message as the task.
C24_UnusableReplyMeansTask ==
  (intent.pc = "returned" /\ intent.calls = 1
   /\ intent.outcome.kind \in {"throws", "malformed"})
    => intent.isTask /\ intent.task = intent.userMessage

\* The reply to a message without keyword was not JSON.
C24_Witness ==
  /\ intent.pc = "returned" /\ intent.calls = 1
  /\ intent.outcome.kind = "malformed"
  /\ intent.isTask /\ intent.userMessage # <<>>

\* ------------------------------------------------- the retained screenshot
\* C26: whenever a cycle of the loop resumes from a capture that gave a
\* frame (user message, manual check, click check, background check), the
\* retained lastScreenshot is that frame after the step.
C26_LastScreenshotIsLatestCapture ==
  [][\A o \in InFlight :
       (o.pc = "capDone" /\ o.shot # NoFrame /\ Resumed(o))
         => lastScreenshot' = o.shot]_vars

\* ------------------------------------------------- the reentrancy guard
\* C29: a guarded cycle (manual, click, background) holds isProcessing from
\* the step in which it has passed its guard check, and a background check
\* that returns early (no frame, first frame, minor change), before the line
\* that sets the flag, leaves the flag as it found it.
C29_GuardCoversGuardedCycles ==
  [][/\ (/\ BagCardinality(ops') > BagCardinality(ops)
         /\ lastOp' \in {"manual.start", "click.start", "popup.start"})
          => isProcessing'
     /\ \A o \in InFlight :
          (/\ o.kind = "popup" /\ o.pc = "capDone" /\ Resumed(o)
           /\ lastOp' \in {"popup.nocapture", "popup.first", "popup.minor"})
            => isProcessing' = isProcessing]_vars

\* A suspended guarded cycle resumes: its capture ends, or the await it is
\* suspended at returns.
ManualProceeds ==
  \E o \in InFlight :
    /\ o.kind = "manual"
    /\ \/ MainCaptureFinish(o) \/ ManualCaptured(o)
       \/ ManualResponse(o) \/ ManualPresented(o)
    /\ UNCHANGED besidesCycles

ClickProceeds ==
  \E o \in InFlight :
    /\ o.kind = "click"
    /\ \/ MainCaptureFinish(o) \/ ClickCaptured(o)
       \/ ClickResponse(o) \/ ClickPresented(o)
    /\ UNCHANGED besidesCycles

PopupProceeds ==
  \E o \in InFlight :
    /\ o.kind = "popup"
    /\ \/ MainCaptureFinish(o) \/ PopupCaptured(o)
       \/ PopupResponse(o) \/ PopupPresented(o)
    /\ UNCHANGED besidesCycles

\* Only background checks are suspended (or nothing is).
OnlyPopups == \A o \in InFlight : o.kind = "popup"

\* The cycles with their starts spaced out: a user message and a background
\* check start when nothing is suspended, a manual or click cycle starts
\* beside background checks only. Every suspended invocation resumes as in
\* Next.
FairNext ==
  \/ ops = EmptyBag /\ handleSubmit /\ UNCHANGED besidesCycles
  \/ OnlyPopups /\ HotkeyPressed /\ UNCHANGED besidesCycles
  \/ OnlyPopups /\ MouseClick /\ UNCHANGED besidesCycles
  \/ ops = EmptyBag /\ checkForPopups /\ UNCHANGED besidesCycles
  \/ reset /\ UNCHANGED besidesCycles
  \/ ClickMonitoringStarted /\ UNCHANGED besidesCycles
  \/ \E o \in InFlight :
       \/ MainCaptureFinish(o) /\ UNCHANGED besidesCycles
       \/ ManualCaptured(o) /\ UNCHANGED besidesCycles
       \/ ManualResponse(o) /\ UNCHANGED besidesCycles
       \/ ManualPresented(o) /\ UNCHANGED besidesCycles
       \/ ClickCaptured(o) /\ UNCHANGED besidesCycles
       \/ ClickResponse(o) /\ UNCHANGED besidesCycles
       \/ ClickPresented(o) /\ UNCHANGED besidesCycles
       \/ PopupCaptured(o) /\ UNCHANGED besidesCycles
       \/ PopupResponse(o) /\ UNCHANGED besidesCycles
       \/ PopupPresented(o) /\ UNCHANGED besidesCycles
       \/ MessageClassified(o) /\ UNCHANGED besidesCycles
       \/ MessageCaptured(o) /\ UNCHANGED besidesCycles
       \/ MessageQuickAnswer(o) /\ UNCHANGED besidesCycles
       \/ MessageResponse(o) /\ UNCHANGED besidesCycles
       \/ MessagePresented(o) /\ UNCHANGED besidesCycles

\* The awaited capture, model and presentation calls of the guarded cycles
\* return.
FairSpec ==
  /\ Init /\ [][FairNext]_vars
  /\ WF_vars(ManualProceeds) /\ WF_vars(ClickProceeds)
  /\ WF_vars(PopupProceeds)

ChildKilledAt_Never(elapsed) == FALSE

\* execFileAsync('swift', args, { timeout: 5000 }): the child is killed when
\* it has run for the timeout.
ChildKilledAt(elapsed) == elapsed >= LOOKUP_TIMEOUT

\* A guarded cycle holds the guard and awaits findElementAccessibility for a
\* target with a text; the search may end by itself or hang.
LookupRequested ==
  /\ timedLookup.pc \in {"idle", "ended"}
  /\ \E cycle \in {"manual", "click", "popup"}, hasFallback \in BOOLEAN,
        hangs \in BOOLEAN :
       timedLookup' = [NoLookup EXCEPT !.pc = "awaiting", !.cycle = cycle,
                                  !.hasFallback = hasFallback,
                                  !.hangs = hangs, !.guard = TRUE]
  /\ UNCHANGED besidesLookup

\* Time passes while the child runs; it cannot pass the moment of the kill.
LookupTick ==
  /\ timedLookup.pc = "awaiting"
  /\ ~ChildKilledAt(timedLookup.elapsed)
  /\ timedLookup.elapsed < MaxElapsed
  /\ timedLookup' = [timedLookup EXCEPT !.elapsed = @ + Second]
  /\ UNCHANGED besidesLookup

\* The child exits by itself: the handler returns the box it printed, or
\* null (ERROR output, no JSON, non-zero exit).
ChildExits ==
  /\ timedLookup.pc = "awaiting"
  /\ ~timedLookup.hangs
  /\ \E found \in BOOLEAN :
       timedLookup' = [timedLookup EXCEPT !.pc = "answered", !.found = found]
  /\ UNCHANGED besidesLookup

\* The timeout kills the child and execFileAsync rejects: the handler
\* returns null, or the box when the output so far is its JSON.
ChildKilled ==
  /\ timedLookup.pc = "awaiting"
  /\ ChildKilledAt(timedLookup.elapsed)
  /\ \E found \in BOOLEAN :
       timedLookup' = [timedLookup EXCEPT !.pc = "answered", !.timedOut = TRUE,
                                !.found = found]
  /\ UNCHANGED besidesLookup

\* resolveCoordinates returns: the box, else the AI coordinates, else null.
LookupResolved ==
  /\ timedLookup.pc = "answered"
  /\ timedLookup' = [timedLookup EXCEPT
                  !.pc = "resolved",
                  !.source = IF timedLookup.found THEN "accessibility"
                             ELSE IF timedLookup.hasFallback THEN "ai"
                             ELSE "none"]
  /\ UNCHANGED besidesLookup

\* showHighlight or clearHighlights, then the finally block of the cycle.
LookupCycleEnds ==
  /\ timedLookup.pc = "resolved"
  /\ timedLookup' = [timedLookup EXCEPT !.pc = "ended", !.guard = FALSE]
  /\ UNCHANGED besidesLookup

LookupNext ==
  \/ LookupRequested
  \/ LookupTick
  \/ ChildExits
  \/ ChildKilled
  \/ LookupResolved
  \/ LookupCycleEnds

\* Time passes, a child that does not hang exits, the timer fires and the
\* renderer resumes its awaits.
LookupSpec ==
  /\ Init /\ [][LookupNext]_vars
  /\ WF_vars(LookupTick) /\ WF_vars(ChildExits) /\ WF_vars(ChildKilled)
  /\ WF_vars(LookupResolved) /\ WF_vars(LookupCycleEnds)

Differing(a, b) == Cardinality({i \in 1..Len(a) : a[i] # b[i]})

\* Variant: strings of different lengths are compared over the shorter one.
hammingDistance_ComparesPrefix(hash1, hash2) ==
  IF hash1 = <<>> \/ hash2 = <<>> THEN MAX_DISTANCE
  ELSE LET n == IF Len(hash1) < Len(hash2) THEN Len(hash1) ELSE Len(hash2)
       IN Differing(SubSeq(hash1, 1, n), SubSeq(hash2, 1, n))

\* hammingDistance(hash1, hash2): characters that differ.
hammingDistance(hash1, hash2) ==
  IF hash1 = <<>> \/ hash2 = <<>> THEN MAX_DISTANCE
  ELSE IF Len(hash1) # Len(hash2) THEN MAX_DISTANCE
  ELSE Differing(hash1, hash2)

\* parseInt(hash, 16), exact for fingerprints this short.
RECURSIVE parseHex(_)
parseHex(hash) ==
  IF hash = <<>> THEN 0
  ELSE 16 * parseHex(SubSeq(hash, 1, Len(hash) - 1)) + hash[Len(hash)]

\* n.toString(2), the digits of zero left to the padding.
RECURSIVE toBinary(_)
toBinary(n) ==
  IF n = 0 THEN <<>> ELSE Append(toBinary(n \div 2), n % 2)

\* bits.padStart(64, '0')
padStart(bits) == [i \in 1..(HASH_BITS - Len(bits)) |-> 0] \o bits

\* parseInt(hash, 16).toString(2).padStart(64, '0')
toBits(hash) == padStart(toBinary(parseHex(hash)))

\* Variant: fingerprints of different lengths are compared as numbers.
hashDistance_IgnoresLength(hash1, hash2) ==
  IF hash1 = <<>> \/ hash2 = <<>> THEN MAX_DISTANCE
  ELSE Differing(toBits(hash1), toBits(hash2))

\* hashDistance(hash1, hash2): bits that differ.
hashDistance(hash1, hash2) ==
  IF hash1 = <<>> \/ hash2 = <<>> \/ Len(hash1) # Len(hash2)
  THEN MAX_DISTANCE
  ELSE Differing(toBits(hash1), toBits(hash2))

\* hasScreenChanged(hash1, hash2, threshold).changed
hasScreenChanged(hash1, hash2, threshold) ==
  hammingDistance(hash1, hash2) > threshold

\* areImagesSimilar(hash1, hash2, threshold)
areImagesSimilar(hash1, hash2, threshold) ==
  hashDistance(hash1, hash2) <= threshold

\* Two fingerprints are handed to the comparison.
CompareCalled ==
  /\ comparison.pc = "idle"
  /\ \E hash1 \in Hashes, hash2 \in Hashes, threshold \in Thresholds :
       comparison' = [NoComparison EXCEPT !.pc = "called", !.hash1 = hash1,
                                          !.hash2 = hash2,
                                          !.threshold = threshold]
  /\ UNCHANGED besidesDistance

\* The distance functions and the two tests return.
CompareReturned ==
  /\ comparison.pc = "called"
  /\ comparison' =
       [comparison EXCEPT
          !.pc = "returned",
          !.hamming = hammingDistance(comparison.hash1, comparison.hash2),
          !.hashDist = hashDistance(comparison.hash1, comparison.hash2),
          !.changed = hasScreenChanged(comparison.hash1, comparison.hash2,
                                       comparison.threshold),
          !.similar = areImagesSimilar(comparison.hash1, comparison.hash2,
                                       comparison.threshold)]
  /\ UNCHANGED besidesDistance

DistanceNext ==
  \/ CompareCalled
  \/ CompareReturned

DistanceSpec == Init /\ [][DistanceNext]_vars

\* The compared fingerprints cannot be compared: one is empty or their
\* lengths differ.
Unusable ==
  \/ comparison.hash1 = <<>>
  \/ comparison.hash2 = <<>>
  \/ Len(comparison.hash1) # Len(comparison.hash2)

\* C27: when either fingerprint is empty or their lengths differ, both
\* distance functions return 64, and for every threshold below 64
\* hasScreenChanged reports a change and areImagesSimilar reports no
\* similarity.
C27_UnusableFingerprintsAreMaximallyDistant ==
  (comparison.pc = "returned" /\ Unusable)
    => /\ comparison.hamming = 64
       /\ comparison.hashDist = 64
       /\ comparison.threshold < 64
            => (comparison.changed /\ ~comparison.similar)

\* Two fingerprints of different lengths that agree where both have a
\* character, compared under the largest threshold below 64.
C27_Witness ==
  /\ comparison.pc = "returned"
  /\ comparison.hash1 = <<15>> /\ comparison.hash2 = <<0, 15>>
  /\ comparison.threshold = 63
  /\ comparison.hamming = 64 /\ comparison.changed /\ ~comparison.similar

\* ------------------------------------------------ the step-plan orchestrator
\* steps[stepIndex] = { ...steps[stepIndex], completed: true } on a copy of
\* the array: an index past the end lengthens it, leaving empty slots.
SetCompleted(steps, stepIndex) ==
  [i \in 1..(IF stepIndex + 1 > Len(steps) THEN stepIndex + 1 ELSE Len(steps))
     |-> IF i = stepIndex + 1 THEN "completed"
         ELSE IF i <= Len(steps) THEN steps[i]
         ELSE "empty"]

\* useTaskStore.updateStep(stepIndex, true)
updateStep(task, stepIndex) ==
  IF ~task.defined THEN task
  ELSE [task EXCEPT !.steps = SetCompleted(task.steps, stepIndex)]

\* useTaskStore.advanceStep()
advanceStep(task) ==
  IF ~task.defined THEN task
  ELSE LET nextIndex == task.currentStepIndex + 1
           isCompleted == nextIndex >= Len(task.steps)
       IN [task EXCEPT
             !.currentStepIndex = IF isCompleted THEN @ ELSE nextIndex,
             !.status = IF isCompleted THEN "completed" ELSE "in_progress"]

\* useTaskStore.completeTask()
completeTask(task) ==
  IF ~task.defined THEN task ELSE [task EXCEPT !.status = "completed"]

\* processUserMessage, task path: setTask(task), then the guidance for the
\* first step is awaited.
TaskCreated ==
  /\ ~planner.starting
  /\ \E n \in 1..MaxSteps : currentTask' = NewTask(n)
  /\ planner' = [planner EXCEPT !.starting = TRUE]
  /\ UNCHANGED checks
  /\ UNCHANGED besidesTask

\* processUserMessage resumes: startStepMonitoring().
MonitoringStarted ==
  /\ planner.starting
  /\ planner' = [planner EXCEPT !.starting = FALSE,
                                !.monitoringInterval = TRUE]
  /\ UNCHANGED <<currentTask, checks>>
  /\ UNCHANGED besidesTask

\* The interval fires: checkStepCompletion up to its first await. Ticks of
\* the interval are CHECK_INTERVAL apart, so the test on lastCheckTime lets
\* them pass.
IntervalFired(k) ==
  /\ planner.monitoringInterval
  /\ checks[k].pc = "idle"
  /\ ~planner.isProcessing
  /\ IF ~currentTask.defined \/ currentTask.status # "in_progress"
     THEN /\ planner' = [planner EXCEPT !.monitoringInterval = FALSE]
          /\ UNCHANGED checks
     ELSE /\ currentTask.currentStepIndex < Len(currentTask.steps)
          /\ currentTask.steps[currentTask.currentStepIndex + 1] = "pending"
          /\ checks' = [checks EXCEPT
                          ![k] = [NoCheck EXCEPT
                                    !.pc = "capturing",
                                    !.index = currentTask.currentStepIndex,
                                    !.length = Len(currentTask.steps)]]
          /\ UNCHANGED planner
  /\ UNCHANGED currentTask
  /\ UNCHANGED besidesTask

\* The two captures and the debounce delay are over: the invocation returns
\* (no frame, no stored frame, same hash), or sets isProcessing and awaits
\* verifyStepCompletion.
CheckCaptured(k) ==
  /\ checks[k].pc = "capturing"
  /\ \E changed \in BOOLEAN :
       IF changed
       THEN /\ planner' = [planner EXCEPT !.isProcessing = TRUE]
            /\ checks' = [checks EXCEPT ![k].pc = "verifying"]
       ELSE /\ checks' = [checks EXCEPT ![k] = NoCheck]
            /\ UNCHANGED planner
  /\ UNCHANGED currentTask
  /\ UNCHANGED besidesTask

\* verifyStepCompletion returned. The step and the length used are those of
\* the task read when the invocation started.
CheckVerified(k) ==
  /\ checks[k].pc = "verifying"
  /\ \E verification \in Verifications :
       IF ~verification.defined
       THEN /\ planner' = [planner EXCEPT !.isProcessing = FALSE]
            /\ checks' = [checks EXCEPT ![k] = [NoCheck EXCEPT
                                                  !.verdict = "failed"]]
            /\ UNCHANGED currentTask
       ELSE IF verification.completed
               /\ verification.confidence > CONFIDENCE_THRESHOLD
       THEN IF checks[k].index >= checks[k].length - 1
            THEN /\ currentTask' =
                      completeTask(updateStep(currentTask, checks[k].index))
                 /\ planner' = [planner EXCEPT !.monitoringInterval = FALSE,
                                               !.isProcessing = FALSE]
                 /\ checks' = [checks EXCEPT ![k] = [NoCheck EXCEPT
                                                       !.verdict = "complete"]]
            ELSE /\ currentTask' =
                      advanceStep(updateStep(currentTask, checks[k].index))
                 /\ checks' = [checks EXCEPT ![k].pc = "guiding",
                                             ![k].verdict = "complete"]
                 /\ UNCHANGED planner
       ELSE /\ checks' = [checks EXCEPT ![k].pc = "guiding",
                                       ![k].verdict = "incomplete"]
            /\ UNCHANGED <<currentTask, planner>>
  /\ UNCHANGED besidesTask

\* The guidance was generated and the message added: the finally block.
CheckEnded(k) ==
  /\ checks[k].pc = "guiding"
  /\ planner' = [planner EXCEPT !.isProcessing = FALSE]
  /\ checks' = [checks EXCEPT ![k].pc = "idle"]
  /\ UNCHANGED currentTask
  /\ UNCHANGED besidesTask

\* skipStep()
skipStep ==
  /\ currentTask.defined /\ currentTask.status = "in_progress"
  /\ currentTask' =
       advanceStep(updateStep(currentTask, currentTask.currentStepIndex))
  /\ UNCHANGED <<planner, checks>>
  /\ UNCHANGED besidesTask

\* handleConversational, followup ("done", "next") while a task is under way.
FollowUp ==
  /\ currentTask.defined /\ currentTask.status = "in_progress"
  /\ IF currentTask.currentStepIndex + 1 < Len(currentTask.steps)
     THEN /\ currentTask' =
               advanceStep(updateStep(currentTask,
                                      currentTask.currentStepIndex))
          /\ UNCHANGED planner
     ELSE /\ currentTask' = completeTask(currentTask)
          /\ planner' = [planner EXCEPT !.monitoringInterval = FALSE]
  /\ UNCHANGED checks
  /\ UNCHANGED besidesTask

\* Orchestrator.reset()
OrchestratorReset ==
  /\ currentTask.defined
  /\ planner' = [planner EXCEPT !.monitoringInterval = FALSE,
                                !.isProcessing = FALSE]
  /\ currentTask' = NoTask
  /\ UNCHANGED checks
  /\ UNCHANGED besidesTask

TaskNext ==
  \/ TaskCreated
  \/ MonitoringStarted
  \/ \E k \in 1..MaxChecks : IntervalFired(k)
  \/ \E k \in 1..MaxChecks : CheckCaptured(k)
  \/ \E k \in 1..MaxChecks : CheckVerified(k)
  \/ \E k \in 1..MaxChecks : CheckEnded(k)
  \/ skipStep
  \/ FollowUp
  \/ OrchestratorReset

TaskSpec == Init /\ [][TaskNext]_vars

\* C28: when verifyStepCompletion reports the step an invocation checked as
\* completed with confidence above 0.7 and a task is in progress, then after
\* the step that step is marked completed and no other step changed, and
\* either currentStepIndex grew by one with the task still in progress, or
\* the step was the last one and the task is completed with monitoring
\* stopped.
C28_VerifiedStepAdvancesByOne ==
  [][\A k \in 1..MaxChecks :
       (/\ checks[k].pc = "verifying"
        /\ checks'[k].verdict = "complete"
        /\ currentTask.defined /\ currentTask.status = "in_progress")
         => /\ currentTask'.steps
                 = [i \in 1..Len(currentTask.steps) |->
                      IF i = checks[k].index + 1 THEN "completed"
                      ELSE currentTask.steps[i]]
            /\ \/ /\ checks[k].index + 1 < Len(currentTask.steps)
                  /\ currentTask'.currentStepIndex
                       = currentTask.currentStepIndex + 1
                  /\ currentTask'.status = "in_progress"
               \/ /\ checks[k].index + 1 = Len(currentTask.steps)
                  /\ currentTask'.status = "completed"
                  /\ ~planner'.monitoringInterval]_vars

\* ------------------------------------------------- goal, listener, guidance
\* C31: in every state with no operation in flight the hotkey listener is
\* registered exactly when there is an active goal.
C31_ListenerIffGoal ==
  ops = EmptyBag => (hotkeyListenerCleanup <=> currentGoal # NoGoal)

\* C32: in every state with no active goal and no operation in flight,
\* lastGuidance is null.
C32_NoGoalNoGuidance ==
  (ops = EmptyBag /\ currentGoal = NoGoal) => lastGuidance = NullText

\* C35: at most one invocation of checkStepCompletion awaits
\* verifyStepCompletion at any time.
C35_OneVerificationInFlight ==
  Cardinality({k \in 1..MaxChecks : checks[k].pc = "verifying"}) <= 1

\* C36: in every state of a task, currentStepIndex is within
\* 0..steps.length-1 and every step below it is marked completed.
C36_StepsBelowIndexCompleted ==
  currentTask.defined
    => /\ currentTask.currentStepIndex \in 0..(Len(currentTask.steps) - 1)
       /\ \A i \in 1..currentTask.currentStepIndex :
            currentTask.steps[i] = "completed"

\* ---------------------------------------------- global click monitoring
\* stopClickMonitoring(): SIGTERM to the tracked child, which exits later.
stopClickMonitoring(m) ==
  IF m.clickMonitorProcess # 0
  THEN [m EXCEPT !.killed = @ \cup {m.clickMonitorProcess},
                 !.clickMonitorProcess = 0]
  ELSE m

\* startGlobalClickMonitoring(): stopGlobalClickMonitoring() calls the
\* cleanup, which removes a function that was never registered (the preload
\* registered its own wrapper), and invokes stop; then start is invoked.
RestartMonitoring ==
  /\ clickRenderer.restarts < MaxRestarts
  /\ clickRenderer' = [clickRenderer EXCEPT
                         !.globalClickMonitoringCleanup = FALSE,
                         !.restarts = @ + 1]
  /\ clickIpc' = [clickIpc EXCEPT !.requests = @ \o <<"stop", "start">>]
  /\ UNCHANGED clickMain
  /\ UNCHANGED besidesMonitor

\* ipcMain.handle('stop-click-monitoring')
MainStops ==
  /\ clickIpc.requests # <<>> /\ Head(clickIpc.requests) = "stop"
  /\ clickMain' = stopClickMonitoring(clickMain)
  /\ clickIpc' = [clickIpc EXCEPT !.requests = Tail(@)]
  /\ UNCHANGED clickRenderer
  /\ UNCHANGED besidesMonitor

\* ipcMain.handle('start-click-monitoring'): startClickMonitoring() stops
\* the tracked child and spawns a new one, or fails and returns false.
MainStarts ==
  /\ clickIpc.requests # <<>> /\ Head(clickIpc.requests) = "start"
  /\ \E spawns \in BOOLEAN :
       LET stopped == stopClickMonitoring(clickMain)
           child == clickMain.spawned + 1
       IN /\ clickMain' =
               IF spawns
               THEN [stopped EXCEPT !.clickMonitorProcess = child,
                                    !.alive = @ \cup {child},
                                    !.spawned = child]
               ELSE stopped
          /\ clickIpc' = [clickIpc EXCEPT !.requests = Tail(@),
                                          !.replies = Append(@, spawns)]
  /\ UNCHANGED clickRenderer
  /\ UNCHANGED besidesMonitor

\* The then-callback of startClickMonitoring(): when started, onMouseClick
\* registers one more listener and its cleanup is stored.
StartAnswered ==
  /\ clickIpc.replies # <<>>
  /\ clickRenderer' =
       IF Head(clickIpc.replies)
       THEN [clickRenderer EXCEPT !.listeners = @ + 1,
                                  !.globalClickMonitoringCleanup = TRUE]
       ELSE clickRenderer
  /\ clickIpc' = [clickIpc EXCEPT !.replies = Tail(@)]
  /\ UNCHANGED clickMain
  /\ UNCHANGED besidesMonitor

\* The 'exit' event of a child, killed or not: clickMonitorProcess = null.
MonitorExits ==
  /\ \E child \in clickMain.alive :
       clickMain' = [clickMain EXCEPT !.alive = @ \ {child},
                                      !.killed = @ \ {child},
                                      !.clickMonitorProcess = 0]
  /\ UNCHANGED <<clickRenderer, clickIpc>>
  /\ UNCHANGED besidesMonitor

\* A running child reports a click; main sends 'mouse-click' and every
\* registered listener calls handleClickEvent.
MonitorReportsClick ==
  /\ clickMain.alive \ clickMain.killed # {}
  /\ clickRenderer' = [clickRenderer EXCEPT !.invoked = clickRenderer.listeners]
  /\ UNCHANGED <<clickMain, clickIpc>>
  /\ UNCHANGED besidesMonitor

MonitorNext ==
  \/ RestartMonitoring
  \/ MainStops
  \/ MainStarts
  \/ StartAnswered
  \/ MonitorExits
  \/ MonitorReportsClick

MonitorSpec == Init /\ [][MonitorNext]_vars

\* C33: after any sequence of restarts of global click monitoring at most
\* one 'mouse-click' listener is registered, and one click invokes
\* handleClickEvent at most once.
C33_AtMostOneClickListener ==
  clickRenderer.listeners <= 1 /\ clickRenderer.invoked <= 1

\* C34: at most one monitor child that was not told to stop is alive, and it
\* is the one clickMonitorProcess refers to.
C34_OneTrackedMonitor ==
  LET running == clickMain.alive \ clickMain.killed
  IN /\ Cardinality(running) <= 1
     /\ running # {} => clickMain.clickMonitorProcess \in running

\* ------------------------------------- change detection before verification
\* The loop of hashScreenshot over the characters of combined:
\* ((hash << 5) - hash) + char. For the screenshots explored the value stays
\* far inside 32 bits, where hash & hash leaves it as it is.
RECURSIVE hashChars(_, _)
hashChars(hash, chars) ==
  IF chars = <<>> THEN hash
  ELSE hashChars(((hash * 32) - hash) + Head(chars), Tail(chars))

\* hashScreenshot(screenshot): the first and the last 100 characters.
hashScreenshot(screenshot) ==
  LET n == Len(screenshot)
      start == SubSeq(screenshot, 1, IF n < HASH_EDGE THEN n ELSE HASH_EDGE)
      end == SubSeq(screenshot,
                    (IF n - HASH_EDGE > 0 THEN n - HASH_EDGE ELSE 0) + 1, n)
  IN hashChars(0, start \o end)

\* processUserMessage, task path: the captured screenshot is stored (its
\* hash is not) and, with the task created, step monitoring starts.
WatchTaskStarts ==
  /\ stepWatch' = [stepWatch EXCEPT !.lastScreenshot = stepWatch.screen,
                                    !.monitoring = TRUE]
  /\ UNCHANGED besidesWatch

\* What is on the screen changes.
ScreenChanges ==
  /\ \E f \in Screens \ {stepWatch.screen} :
       stepWatch' = [stepWatch EXCEPT !.screen = f]
  /\ UNCHANGED besidesWatch

\* The interval fires and checkStepCompletion requests its first capture.
WatchTick ==
  /\ stepWatch.monitoring /\ stepWatch.pc = "idle"
  /\ stepWatch' = [stepWatch EXCEPT !.pc = "capturing"]
  /\ UNCHANGED besidesWatch

\* The first capture returns: nothing to compare with, same hash, or the
\* settle delay starts.
WatchCaptured ==
  /\ stepWatch.pc = "capturing"
  /\ \E newScreenshot \in {stepWatch.screen, NoScreen} :
       stepWatch' =
         IF newScreenshot = NoScreen \/ stepWatch.lastScreenshot = NoScreen
         THEN IF newScreenshot # NoScreen
              THEN [stepWatch EXCEPT
                      !.pc = "idle",
                      !.lastScreenshot = newScreenshot,
                      !.lastScreenshotHash = hashScreenshot(newScreenshot)]
              ELSE [stepWatch EXCEPT !.pc = "idle"]
         ELSE IF hashScreenshot(newScreenshot) = stepWatch.lastScreenshotHash
         THEN [stepWatch EXCEPT !.pc = "idle"]
         ELSE [stepWatch EXCEPT !.pc = "settling",
                                !.newScreenshot = newScreenshot]
  /\ UNCHANGED besidesWatch

\* The delay is over and the second capture returns: no frame, same hash,
\* or verifyStepCompletion is called.
WatchSettled ==
  /\ stepWatch.pc = "settling"
  /\ \E stableScreenshot \in {stepWatch.screen, NoScreen} :
       stepWatch' =
         IF stableScreenshot = NoScreen
         THEN [stepWatch EXCEPT !.pc = "idle", !.newScreenshot = NoScreen]
         ELSE IF hashScreenshot(stableScreenshot)
                   = stepWatch.lastScreenshotHash
         THEN [stepWatch EXCEPT !.pc = "idle", !.newScreenshot = NoScreen]
         ELSE [stepWatch EXCEPT !.pc = "verifying",
                                !.stableScreenshot = stableScreenshot]
  /\ UNCHANGED besidesWatch

\* The verification returns: every outcome stores the stable screenshot and
\* its hash; an exception stores nothing.
WatchVerified ==
  /\ stepWatch.pc = "verifying"
  /\ \E threw \in BOOLEAN :
       stepWatch' =
         IF threw
         THEN [stepWatch EXCEPT !.pc = "idle", !.newScreenshot = NoScreen,
                                !.stableScreenshot = NoScreen]
         ELSE [stepWatch EXCEPT
                 !.pc = "idle",
                 !.lastScreenshot = stepWatch.stableScreenshot,
                 !.lastScreenshotHash =
                    hashScreenshot(stepWatch.stableScreenshot),
                 !.newScreenshot = NoScreen,
                 !.stableScreenshot = NoScreen]
  /\ UNCHANGED besidesWatch

\* Orchestrator.reset()
WatchReset ==
  /\ stepWatch.monitoring
  /\ stepWatch' = [stepWatch EXCEPT !.lastScreenshot = NoScreen,
                                    !.lastScreenshotHash = NoHash,
                                    !.monitoring = FALSE]
  /\ UNCHANGED besidesWatch

WatchNext ==
  \/ WatchTaskStarts
  \/ ScreenChanges
  \/ WatchTick
  \/ WatchCaptured
  \/ WatchSettled
  \/ WatchVerified
  \/ WatchReset

WatchSpec == Init /\ [][WatchNext]_vars

\* C37: verifyStepCompletion is called only with a stable frame that differs
\* from the stored screenshot: when the screen is as the stored screenshot
\* shows it, no verification call is made.
C37_NoVerificationWithoutChange ==
  [][(stepWatch.pc = "settling" /\ stepWatch'.pc = "verifying")
       => /\ stepWatch.newScreenshot # stepWatch.lastScreenshot
          /\ stepWatch'.stableScreenshot # stepWatch.lastScreenshot]_vars

\* ------------------------------------------------------------ click timing
\* handleClickEvent against a clock. The clock advances in steps of
\* ClockStep; an await takes any time, including less than one step.

ClockAdvances ==
  /\ clickTiming.now + ClockStep <= MaxClock
  /\ clickTiming' = [clickTiming EXCEPT !.now = @ + ClockStep]
  /\ UNCHANGED besidesTiming

\* A 'mouse-click' event reaches handleClickEvent. The only test before the
\* check starts is isProcessing; event.timestamp and CLICK_DEBOUNCE are not
\* read. A started check records its start time and the time since the
\* previous start.
TimedClick ==
  /\ IF clickTiming.isProcessing
        THEN UNCHANGED clickTiming
        ELSE clickTiming' =
               [clickTiming EXCEPT
                  !.isProcessing = TRUE,
                  !.pc = "capturing",
                  !.modelCalled = FALSE,
                  !.lastStart = <<clickTiming.now>>,
                  !.gap = IF clickTiming.lastStart = <<>>
                            THEN @
                            ELSE <<clickTiming.now - clickTiming.lastStart[1]>>]
  /\ UNCHANGED besidesTiming

\* captureScreen returns: null ends the check through finally, a frame goes
\* on to analyzeScreenWithClaude.
TimedCaptured ==
  /\ clickTiming.pc = "capturing"
  /\ \E captured \in BOOLEAN :
       clickTiming' =
         IF captured
           THEN [clickTiming EXCEPT !.pc = "asking", !.modelCalled = TRUE]
           ELSE [clickTiming EXCEPT !.pc = "idle", !.isProcessing = FALSE]
  /\ UNCHANGED besidesTiming

\* analyzeScreenWithClaude returns; every path from there ends in finally.
TimedAnswered ==
  /\ clickTiming.pc = "asking"
  /\ clickTiming' = [clickTiming EXCEPT !.pc = "idle", !.isProcessing = FALSE]
  /\ UNCHANGED besidesTiming

TimingNext == ClockAdvances \/ TimedClick \/ TimedCaptured \/ TimedAnswered

TimingSpec == Init /\ [][TimingNext]_vars

\* C38: two click-triggered checks never start less than CLICK_DEBOUNCE
\* apart: a check that captures the screen or calls the model started at
\* least CLICK_DEBOUNCE after the start of the check before it.
C38_ClickChecksDebounced ==
  (clickTiming.gap # <<>> /\ clickTiming.pc = "asking")
    => clickTiming.gap[1] >= CLICK_DEBOUNCE

\* ------------------------------------------------- the major-change boundary
\* C39 as the spec states it: a background check calls the model only when
\* the length difference from the stored frame strictly exceeds
\* POPUP_DETECTION_THRESHOLD.  hasMajorScreenChange tests >=, so a difference
\* of exactly the threshold calls the model: violated.
C39_ThresholdExclusive ==
  [][\A o \in InFlight :
       (/\ IsBackground(o) /\ o.pc = "capDone" /\ Resumed(o)
        /\ o.shot # NoFrame /\ lastScreenshot # NoFrame
        /\ lastOp' = "popup.model")
         => lengthDiff(o.shot, lastScreenshot) > POPUP_DETECTION_THRESHOLD]_vars

\* C39, amended: a background check that resumes with a frame calls the
\* model exactly when the length difference from the stored frame is at least
\* POPUP_DETECTION_THRESHOLD; a difference equal to the threshold triggers
\* the call.
C39_ThresholdInclusive ==
  [][\A o \in InFlight :
       (/\ IsBackground(o) /\ o.pc = "capDone" /\ Resumed(o)
        /\ o.shot # NoFrame /\ lastScreenshot # NoFrame)
         => (lastOp' = "popup.model"
               <=> lengthDiff(o.shot, lastScreenshot)
                     >= POPUP_DETECTION_THRESHOLD)]_vars

\* A background check has just gone on to the model with a frame that only
\* a difference of exactly the threshold separates from a stored frame.
C39_Witness ==
  /\ lastOp = "popup.model"
  /\ lastScreenshot # NoFrame
  /\ \A last \in FrameLengths :
       lengthDiff(lastScreenshot, last) >= POPUP_DETECTION_THRESHOLD
         => lengthDiff(lastScreenshot, last) = POPUP_DETECTION_THRESHOLD

\* ------------------------------------------------------ highlight placement
\* The 'show-overlay-highlight' handler of the main process, up to the final
\* screen coordinates. The overlay covers the primary display, so the canvas
\* coordinates equal the screen coordinates.

\* Math.round(n / d) for d > 0: the nearest integer, halves upwards.
Round(n, d) == (2 * n + d) \div (2 * d)

\* Math.max(0, Math.min(v, limit))
Clamp(v, limit) == IF v < 0 THEN 0 ELSE IF v > limit THEN limit ELSE v

\* The test before the scaling: data.coordinateSource is not part of it.
NeedsScaling(data, dimensions, display) ==
  /\ dimensions # NoDimensions
  /\ (dimensions.width # display.width \/ dimensions.height # display.height)

\* screenX and screenY after scaling, rounding and clamping.
screenPoint(data, dimensions, display) ==
  LET scaled == NeedsScaling(data, dimensions, display)
      screenX == IF scaled THEN Round(data.x * display.width, dimensions.width)
                           ELSE data.x
      screenY == IF scaled THEN Round(data.y * display.height, dimensions.height)
                           ELSE data.y
  IN [x |-> Clamp(screenX, display.width), y |-> Clamp(screenY, display.height)]

\* The renderer invokes 'show-overlay-highlight' with some data, after some
\* capture left its dimensions, on some display.
HighlightRequested ==
  /\ highlightCall.pc = "idle"
  /\ \E x \in HighlightXs, y \in HighlightYs, source \in CoordinateSources,
        dimensions \in ShotDimensions, display \in Displays :
       highlightCall' =
         [highlightCall EXCEPT
            !.pc = "called", !.x = x, !.y = y, !.coordinateSource = source,
            !.lastScreenshotDimensions = dimensions, !.display = display,
            !.screenX = 0, !.screenY = 0]
  /\ UNCHANGED besidesHighlight

\* The handler computes the final screen coordinates.
HighlightPlaced ==
  /\ highlightCall.pc = "called"
  /\ LET point == screenPoint(highlightCall,
                              highlightCall.lastScreenshotDimensions,
                              highlightCall.display)
     IN highlightCall' = [highlightCall EXCEPT !.pc = "placed",
                                               !.screenX = point.x,
                                               !.screenY = point.y]
  /\ UNCHANGED besidesHighlight

\* The highlight has been sent; the next call can be made.
HighlightSent ==
  /\ highlightCall.pc = "placed"
  /\ highlightCall' = [highlightCall EXCEPT !.pc = "idle"]
  /\ UNCHANGED besidesHighlight

HighlightNext == HighlightRequested \/ HighlightPlaced \/ HighlightSent

HighlightSpec == Init /\ [][HighlightNext]_vars

\* C40 as the spec states it: a highlight whose coordinate source is
\* "accessibility" is drawn at the point it was given (kept inside the
\* screen), whatever the screenshot and screen dimensions; a highlight whose
\* source is "ai" is drawn at the point scaled by screen / screenshot; both
\* lie within 0..width and 0..height of the screen.  The handler scales
\* without reading coordinateSource, so an accessibility point is scaled
\* whenever the screenshot dimensions differ from the screen: violated.
C40_AccessibilityPointNotRescaled ==
  highlightCall.pc = "placed" =>
    LET display == highlightCall.display
        dimensions == highlightCall.lastScreenshotDimensions
    IN /\ highlightCall.screenX \in 0..display.width
       /\ highlightCall.screenY \in 0..display.height
       /\ highlightCall.coordinateSource = "accessibility"
            => /\ highlightCall.screenX = Clamp(highlightCall.x, display.width)
               /\ highlightCall.screenY = Clamp(highlightCall.y, display.height)
       /\ (highlightCall.coordinateSource = "ai" /\ dimensions # NoDimensions)
            => /\ highlightCall.screenX =
                    Clamp(Round(highlightCall.x * display.width,
                                dimensions.width), display.width)
               /\ highlightCall.screenY =
                    Clamp(Round(highlightCall.y * display.height,
                                dimensions.height), display.height)

====
